---- MODULE Spec2Model ----
(***************************************************************************)
(* Seeded, tiled stereo correlation of the Ames Stereo Pipeline            *)
(* (stereo_corr.cc): the low-resolution stage with its on-disk cache       *)
(* (lowres_correlation, produce_lowres_disparity, read_search_range), the  *)
(* per-tile search-range refinement and crop-window masking of             *)
(* SeededCorrelatorView, and the driver stereo_correlation.                *)
(*                                                                         *)
(* Reals are modelled exactly as quotients of integers: a quantity n/d is  *)
(* carried as the pair of its integer numerator and denominator and only   *)
(* its floor, ceiling, truncation or rounding is ever taken.               *)
(***************************************************************************)
EXTENDS Integers, Sequences, FiniteSets, TLC

VARIABLES
  config,    \* the settings the user gave: what every run starts from
  settings,  \* stereo_settings(): the global mutable settings object
  files,     \* the artifacts under opt.out_prefix on disk
  pc,        \* position of the running stereo_correlation
  run,       \* number of runs of stereo_correlation started so far
  log,       \* what the current run has done (calls made, files written)
  err,       \* the exception that ended the current run, or "none"
  view,      \* the members of the SeededCorrelatorView in use
  tile,      \* the last call of SeededCorrelatorView::prerasterize
  workers,   \* the threads of the raster writer inside prerasterize: their locals
  hook       \* the reference arguments of shared_preprocessing_hook and how it returned

vars == <<config, settings, files, pc, run, log, err, view, tile, workers, hook>>

---------------------------------------------------------------------------
(* Arithmetic on quotients n/d with d > 0 *)

Min2(a, b) == IF a < b THEN a ELSE b

Max2(a, b) == IF a > b THEN a ELSE b

SetMin(S) == CHOOSE m \in S : \A n \in S : m <= n

SetMax(S) == CHOOSE m \in S : \A n \in S : m >= n

\* floor(n/d)
floor_q(n, d) == n \div d

\* ceil(n/d)
ceil_q(n, d) == -((-n) \div d)

\* the C++ conversion of the double n/d to int: truncation toward zero
trunc_q(n, d) == IF n >= 0 THEN n \div d ELSE -((-n) \div d)

\* round(n/d) of <cmath>: to nearest, halves away from zero
round_q(n, d) == IF n >= 0 THEN (2 * n + d) \div (2 * d)
                           ELSE -((2 * (-n) + d) \div (2 * d))

---------------------------------------------------------------------------
(* vw::BBox2i / BBox2f: min and max corners, max exclusive for pixel boxes *)

BBox(minx, miny, maxx, maxy) == [min |-> <<minx, miny>>, max |-> <<maxx, maxy>>]

\* BBox2i(x, y, width, height)
BBoxWH(x, y, w, h) == BBox(x, y, x + w, y + h)

width(b) == b.max[1] - b.min[1]

height(b) == b.max[2] - b.min[2]

empty(b) == \E i \in 1..2 : b.min[i] >= b.max[i]

\* BBox::crop: intersection with c
crop(b, c) ==
  [min |-> <<Max2(b.min[1], c.min[1]), Max2(b.min[2], c.min[2])>>,
   max |-> <<Min2(b.max[1], c.max[1]), Min2(b.max[2], c.max[2])>>]

\* BBox::expand
expand(b, n) ==
  [min |-> <<b.min[1] - n, b.min[2] - n>>, max |-> <<b.max[1] + n, b.max[2] + n>>]

\* BBox::contains(point): min <= p < max
contains(b, p) == \A i \in 1..2 : p[i] >= b.min[i] /\ p[i] < b.max[i]

\* BBox2f::grow(bbox): grows to hold both corners of c
grow(b, c) ==
  [min |-> <<Min2(b.min[1], Min2(c.min[1], c.max[1])), Min2(b.min[2], Min2(c.min[2], c.max[2]))>>,
   max |-> <<Max2(b.max[1], Max2(c.min[1], c.max[1])), Max2(b.max[2], Max2(c.min[2], c.max[2]))>>]

\* the pixels (col, row) of a pixel box
Cells(b) == (b.min[1] .. (b.max[1] - 1)) \X (b.min[2] .. (b.max[2] - 1))

\* a encloses b as closed ranges of disparities, per axis
Encloses(a, b) == \A i \in 1..2 : a.min[i] <= b.min[i] /\ b.max[i] <= a.max[i]

ZeroBox == BBox(0, 0, 0, 0)

---------------------------------------------------------------------------
(* PixelMask<Vector2i> and images of them *)

\* pixel_type(): the default-constructed, invalid pixel
Invalid == [valid |-> FALSE, v |-> <<0, 0>>]

Pix(x, y) == [valid |-> TRUE, v |-> <<x, y>>]

\* PixelMask sum and difference: valid only where both operands are valid
PixAdd(a, b) == [valid |-> a.valid /\ b.valid, v |-> <<a.v[1] + b.v[1], a.v[2] + b.v[2]>>]

PixSub(a, b) == [valid |-> a.valid /\ b.valid, v |-> <<a.v[1] - b.v[1], a.v[2] - b.v[2]>>]

\* an uninitialized ImageViewRef: cols() = rows() = 0
NullImage == [cols |-> 0, rows |-> 0, px |-> << >>]

\* bounding_box(image)
bounding_box(img) == BBoxWH(0, 0, img.cols, img.rows)

\* crop(image, box): the pixels of the box, kept at their image coordinates
CropImg(img, b) == [p \in Cells(b) |-> img.px[p]]

\* stereo::get_disparity_range: per-axis minimum and maximum of the valid
\* pixels of a view; the zero box when no pixel is valid
get_disparity_range(v) ==
  LET V == {p \in DOMAIN v : v[p].valid} IN
  IF V = {} THEN ZeroBox
  ELSE [min |-> <<SetMin({v[p].v[1] : p \in V}), SetMin({v[p].v[2] : p \in V})>>,
        max |-> <<SetMax({v[p].v[1] : p \in V}), SetMax({v[p].v[2] : p \in V})>>]

\* vw::grow_bbox_to_int on a box with integer corners: floor(min), floor(max) + 1
grow_bbox_to_int(b) ==
  [min |-> b.min, max |-> <<b.max[1] + 1, b.max[2] + 1>>]

---------------------------------------------------------------------------
(* Local homographies *)

Identity3 == <<<<1, 0, 0>>, <<0, 1, 0>>, <<0, 0, 1>>>>

\* HomographyTransform(H).forward(p) as the quotients <<X, Y>> / W
forward(H, p) ==
  [X |-> H[1][1] * p[1] + H[1][2] * p[2] + H[1][3],
   Y |-> H[2][1] * p[1] + H[2][2] * p[2] + H[2][3],
   W |-> H[3][1] * p[1] + H[3][2] * p[2] + H[3][3]]

\* transform_disparities(do_round = true, subregion, T, disparity): a valid
\* disparity d at pixel beg becomes round(T(beg + d) - beg); an invalid one
\* stays invalid
transform_disparities(T, disparity) ==
  [beg \in DOMAIN disparity |->
     IF ~disparity[beg].valid THEN Invalid
     ELSE LET d == disparity[beg].v
              e == forward(T, <<beg[1] + d[1], beg[2] + d[2]>>)
          IN Pix(round_q(e.X - beg[1] * e.W, e.W), round_q(e.Y - beg[2] * e.W, e.W))]

---------------------------------------------------------------------------
(* SeededCorrelatorView *)

\* ASPGlobalOptions::corr_tile_size(), scaled down
corr_tile_size == 2

\* the view's cols() and rows(): those of the left image
ViewBox(V) == BBoxWH(0, 0, V.left_cols, V.left_rows)

\* the constructor's m_upscale_factor[i] = left size / seed size, as the
\* pair <<numerator, denominator>>
m_upscale_factor(V) ==
  <<(<<V.left_cols, V.m_sub_disp.cols>>), (<<V.left_rows, V.m_sub_disp.rows>>)>>

\* a low-res version of a tile without the margin of one seed pixel
SeedBBoxNoMargin(V, bbox) ==
  LET up == m_upscale_factor(V)
      q(c, i) == trunc_q(c * up[i][2], up[i][1])
      seed_bbox == BBox(q(bbox.min[1], 1), q(bbox.min[2], 2),
                        q(bbox.max[1], 1), q(bbox.max[2], 2))
  IN crop(seed_bbox, bounding_box(V.m_sub_disp))

\* the low-res version of a tile: corners divided by the upscale factor and
\* converted to int, expanded by one seed pixel, cropped to m_seed_bbox
SeedBBox(V, bbox) ==
  LET up == m_upscale_factor(V)
      q(c, i) == trunc_q(c * up[i][2], up[i][1])
      seed_bbox == BBox(q(bbox.min[1], 1), q(bbox.min[2], 2),
                        q(bbox.max[1], 1), q(bbox.max[2], 2))
  IN crop(expand(seed_bbox, 1), bounding_box(V.m_sub_disp))

\* the spread step without local homography: min -= spread.max(),
\* max += spread.max()
SpreadNoHom(range, spread) ==
  [min |-> <<range.min[1] - spread.max[1], range.min[2] - spread.max[2]>>,
   max |-> <<range.max[1] + spread.max[1], range.max[2] + spread.max[2]>>]

\* the rounding to integers without the expansion by one that follows it
GrowNoExpand(r) == grow_bbox_to_int(r)

\* grow_bbox_to_int, then "Expand local_search_range by 1"
GrowAndExpand(r) == expand(grow_bbox_to_int(r), 1)

\* a scaling that converts the scaled min corner to int toward zero
ScaleUpTruncMin(V, r) ==
  LET up == m_upscale_factor(V) IN
  [min |-> <<trunc_q(r.min[1] * up[1][1], up[1][2]), trunc_q(r.min[2] * up[2][1], up[2][2])>>,
   max |-> <<ceil_q(r.max[1] * up[1][1], up[1][2]), ceil_q(r.max[2] * up[2][1], up[2][2])>>]

\* "Scale the search range to full-resolution": floor on min, ceil on max
ScaleUp(V, r) ==
  LET up == m_upscale_factor(V) IN
  [min |-> <<floor_q(r.min[1] * up[1][1], up[1][2]), floor_q(r.min[2] * up[2][1], up[2][2])>>,
   max |-> <<ceil_q(r.max[1] * up[1][1], up[1][2]), ceil_q(r.max[2] * up[2][1], up[2][2])>>]

\* the search range of the seeded branch of prerasterize_helper
\* (seed_mode > 0), or the ArgumentErr of its sanity check
SeededRange(V, S, bbox) ==
  LET seed_bbox == SeedBBox(V, bbox)
      disparity_in_box == CropImg(V.m_sub_disp, seed_bbox)
      lowres_hom == V.m_local_hom[<<bbox.min[1] \div corr_tile_size,
                                    bbox.min[2] \div corr_tile_size>>]
      from_seed == IF ~S.use_local_homography
                   THEN get_disparity_range(disparity_in_box)
                   ELSE get_disparity_range(transform_disparities(lowres_hom, disparity_in_box))
      has_sub_disp_spread == V.m_sub_disp_spread.cols # 0 /\ V.m_sub_disp_spread.rows # 0
      spread_in_box == CropImg(V.m_sub_disp_spread, seed_bbox)
      upper_disp == transform_disparities(lowres_hom,
                      [p \in DOMAIN disparity_in_box |-> PixAdd(disparity_in_box[p], spread_in_box[p])])
      lower_disp == transform_disparities(lowres_hom,
                      [p \in DOMAIN disparity_in_box |-> PixSub(disparity_in_box[p], spread_in_box[p])])
      with_spread == IF ~has_sub_disp_spread THEN from_seed
                     ELSE IF ~S.use_local_homography
                          THEN SpreadNoHom(from_seed, get_disparity_range(spread_in_box))
                          ELSE grow(get_disparity_range(upper_disp), get_disparity_range(lower_disp))
  IN IF /\ has_sub_disp_spread
        /\ V.m_sub_disp_spread.cols # V.m_sub_disp.cols
        /\ V.m_sub_disp_spread.rows # V.m_sub_disp.rows
     THEN [err |-> "ArgumentErr", range |-> ZeroBox]
     ELSE [err |-> "none",
           range |-> ScaleUp(V, GrowAndExpand(with_spread))]

\* local_search_range of prerasterize_helper, as handed to the engine
LocalSearchRange(V, S, bbox) ==
  IF S.seed_mode > 0 THEN SeededRange(V, S, bbox)
  ELSE [err |-> "none", range |-> S.search_range]

\* the tiles the raster writer asks for: the grid of corr_tile_size blocks
\* over the view, the last block of a row or column cut at the image edge
Tiles(cols, rows) ==
  {BBox(i * corr_tile_size, j * corr_tile_size,
        Min2((i + 1) * corr_tile_size, cols), Min2((j + 1) * corr_tile_size, rows)) :
     i \in 0 .. ((cols - 1) \div corr_tile_size), j \in 0 .. ((rows - 1) \div corr_tile_size)}

\* the indices of the homography grid: one matrix per tile
TileIdx(cols, rows) ==
  (0 .. ((cols - 1) \div corr_tile_size)) \X (0 .. ((rows - 1) \div corr_tile_size))

\* a skip test that asks for an empty intersection on both axes
SkipsTileBothAxes(V, bbox) ==
  \A i \in 1..2 : crop(bbox, V.m_trans_crop_win).min[i] >= crop(bbox, V.m_trans_crop_win).max[i]

\* "Skip the current tile if it does not intersect this region"
SkipsTile(V, bbox) == empty(crop(bbox, V.m_trans_crop_win))

\* the tile returned for a skipped bbox: ImageView(bbox.width(), bbox.height())
\* of default pixels, addressed at the bbox
SkippedTile(bbox) ==
  [cols |-> width(bbox), rows |-> height(bbox), px |-> [p \in Cells(bbox) |-> Invalid]]

\* a mask that takes the window's max corner as part of the window
MaskOutsideInclusive(V, bbox, disparity) ==
  [p \in Cells(bbox) |->
     IF \E i \in 1..2 : p[i] < V.m_trans_crop_win.min[i] \/ p[i] > V.m_trans_crop_win.max[i]
     THEN Invalid ELSE disparity[p]]

\* "Set to invalid the disparity outside m_trans_crop_win"
MaskOutside(V, bbox, disparity) ==
  [p \in Cells(bbox) |-> IF ~contains(V.m_trans_crop_win, p) THEN Invalid ELSE disparity[p]]

\* What PyramidCorrelationView::prerasterize may return for a tile: the
\* engine is external, its result is any of these fields over the bbox
EnginePatterns == {"all", "none", "some"}

EngineOut(bbox, pat) ==
  [p \in Cells(bbox) |->
     IF pat = "none" \/ (pat = "some" /\ (p[1] + p[2]) % 2 = 1) THEN Invalid
     ELSE Pix(p[1] + 1, p[2] - 1)]

NoTile ==
  [done |-> FALSE, bbox |-> ZeroBox, engine_calls |-> 0, search_range |-> ZeroBox,
   engine_px |-> << >>, cols |-> 0, rows |-> 0, px |-> << >>]

\* threads of the raster writer that may be inside prerasterize at once
NumWorkers == 2

\* the locals of a thread: where it is in prerasterize, its bbox, its
\* local_search_range, the engine's result for it and the tile it returns
IdleWorker ==
  [st |-> "idle", bbox |-> ZeroBox, local_search_range |-> ZeroBox, engine_calls |-> 0,
   disparity |-> << >>, cols |-> 0, rows |-> 0, px |-> << >>, err |-> "none"]

NoWorkers == [w \in 1 .. NumWorkers |-> IdleWorker]

\* SeededCorrelatorView::prerasterize(bbox), with prerasterize_helper; the
\* caller says what becomes of log
prerasterize(bbox) ==
  /\ pc = "correlate"
  /\ IF SkipsTile(view, bbox)
     THEN /\ tile' = [done |-> TRUE, bbox |-> bbox, engine_calls |-> 0,
                      search_range |-> ZeroBox, engine_px |-> << >>,
                      cols |-> SkippedTile(bbox).cols, rows |-> SkippedTile(bbox).rows,
                      px |-> SkippedTile(bbox).px]
          /\ UNCHANGED <<pc, err>>
     ELSE LET helper == LocalSearchRange(view, settings, bbox) IN
          IF helper.err # "none"
          THEN /\ err' = helper.err
               /\ pc' = "done"
               /\ tile' = [NoTile EXCEPT !.bbox = bbox]
          ELSE /\ \E pat \in EnginePatterns :
                    tile' = [done |-> TRUE, bbox |-> bbox, engine_calls |-> 1,
                             search_range |-> helper.range,
                             engine_px |-> EngineOut(bbox, pat),
                             cols |-> width(bbox), rows |-> height(bbox),
                             px |-> MaskOutside(view, bbox, EngineOut(bbox, pat))]
               /\ UNCHANGED <<pc, err>>
  /\ UNCHANGED <<config, settings, run, view, workers, hook>>

---------------------------------------------------------------------------
(* Settings, files and the record of a run *)

UserRange == BBox(-20, -5, 20, 5)

\* a float: quiet_NaN or a number
NaN == [nan |-> TRUE, v |-> 0]

Float(n) == [nan |-> FALSE, v |-> n]

DefaultSettings ==
  [seed_mode |-> 0, search_range |-> ZeroBox, use_local_homography |-> FALSE,
   left_image_crop_win |-> ZeroBox, right_image_crop_win |-> ZeroBox,
   trans_crop_win |-> ZeroBox,
   skip_low_res_disparity_comp |-> FALSE, compute_low_res_disparity_only |-> FALSE,
   cost_mode |-> 2, use_sgm |-> FALSE,
   rm_quantile_multiple |-> -1, corr_blob_filter_area |-> 5,
   seed_percent_pad |-> <<1, 4>>,
   nodata_value |-> NaN, alignment_method |-> "none"]

\* a file is absent, corrupt (it exists and opening or reading it throws) or ok
Absent == [st |-> "absent"]

\* the artifacts under opt.out_prefix: -D_sub.tif, -D_sub_spread.tif,
\* -local_hom.txt, the match file, -align-L.exr, -align-R.exr, -D.tif,
\* what a readable -local_hom.txt was computed from (the -D_sub.tif now on
\* disk, "D_sub", or one that has been replaced since, "older"), whether
\* -L.tif and -R.tif are there and open (out_L, out_R), -L-cropped.tif and
\* -R-cropped.tif, the no-data value and georeference of the input images, and
\* the sizes of -L.tif (= -lMask.tif), -R.tif and -L_sub.tif
NoFiles ==
  [D_sub |-> Absent, D_sub_spread |-> Absent, local_hom |-> Absent,
   match |-> Absent, align_L |-> Absent, align_R |-> Absent, D |-> Absent,
   L |-> [cols |-> 1, rows |-> 1], R |-> [cols |-> 1, rows |-> 1],
   L_sub |-> [cols |-> 1, rows |-> 1],
   local_hom_of |-> "none",
   out_L |-> Absent, out_R |-> Absent, L_cropped |-> Absent, R_cropped |-> Absent,
   left_input |-> [nodata |-> NaN, georef |-> FALSE],
   right_input |-> [nodata |-> NaN, georef |-> FALSE]]

\* what a run has done so far
\* rebuild: the local of lowres_correlation; probed: the state of D_sub when
\* lowres_correlation probed it; the calls made and the writes of D_sub; the
\* tiles asked for; the stage an exception came from; and the calls of the
\* low-resolution engine in the runs before this one; the calls of
\* lowres_correlation; and the state of the homography grid when
\* lowres_correlation read it; the matcher ip_matching called and the value
\* ip_matching returned; the outlier filters run on the coarse field and the
\* blob filter area given to the low-resolution engine, as a quotient
NoLog ==
  [rebuild |-> "unset", probed |-> "none", produce_lowres_disparity |-> 0,
   pyramid_correlate |-> 0, produce_dem_disparity |-> 0, D_sub_writes |-> 0,
   create_local_homographies |-> 0, tiles |-> {}, failed_at |-> "none",
   earlier_pyramid_correlate |-> 0, lowres_correlation |-> 0, probed_hom |-> "none",
   matcher |-> "none", ip_matching |-> "none",
   filters |-> << >>, blob_filter_area |-> << >>,
   D_sub_search_range |-> ZeroBox]

\* the reference arguments of shared_preprocessing_hook before any call, as
\* a caller that has set nothing leaves them
NoHook ==
  [st |-> "idle", left_output_file |-> "", right_output_file |-> "",
   left_cropped_file |-> "", right_cropped_file |-> "",
   left_nodata_value |-> NaN, right_nodata_value |-> NaN,
   options |-> "caller",
   has_left_georef |-> FALSE, has_right_georef |-> FALSE,
   left_georef |-> "caller", right_georef |-> "caller"]

NoView == [left_cols |-> 0, left_rows |-> 0, m_sub_disp |-> NullImage,
           m_sub_disp_spread |-> NullImage, m_local_hom |-> << >>,
           m_trans_crop_win |-> ZeroBox]

\* a SeededCorrelatorView as stereo_correlation constructs it
MakeView(g, sub, spread, hom, win) ==
  [left_cols |-> g.left_cols, left_rows |-> g.left_rows,
   m_sub_disp |-> sub, m_sub_disp_spread |-> spread,
   m_local_hom |-> hom, m_trans_crop_win |-> win]

\* every image of the given size with pixels drawn from vals or invalid
Images(cols, rows, vals) ==
  {[cols |-> cols, rows |-> rows, px |-> f] :
     f \in [(0 .. (cols - 1)) \X (0 .. (rows - 1)) -> vals \cup {Invalid}]}

---------------------------------------------------------------------------
(* The inputs tile evaluation is checked on *)

\* left image size and seed (D_sub) size
TileGeoms ==
  {[left_cols |-> 8, left_rows |-> 8, sub_cols |-> 1, sub_rows |-> 1],
   [left_cols |-> 6, left_rows |-> 2, sub_cols |-> 3, sub_rows |-> 1],
   [left_cols |-> 3, left_rows |-> 3, sub_cols |-> 2, sub_rows |-> 1]}

SeedValues == {Pix(4, -2), Pix(-1, 1)}

SpreadValues == {Pix(1, 2), Pix(-2, 1)}

ShearShift == <<<<1, 1, 1>>, <<0, 1, 0>>, <<0, 0, 1>>>>

HalfScale == <<<<1, 0, 0>>, <<0, 1, 0>>, <<0, 0, 2>>>>

\* the homography grids tried: all identity, or a different matrix per column
HomGrids(cols, rows) ==
  {[t \in TileIdx(cols, rows) |-> Identity3],
   [t \in TileIdx(cols, rows) |-> IF t[1] % 2 = 0 THEN ShearShift ELSE HalfScale]}

\* the crop windows tried: the whole image, and a window that leaves the
\* first column and row and the last columns out, ending inside a tile
CropWins(cols, rows) ==
  {BBoxWH(0, 0, cols, rows), BBox(1, 1, Max2(cols - 3, 2), rows)}

\* spread fields that are one column, one row, or both larger than the seed
\* field (so that every read of the spread over a seed box stays inside it)
MismatchedSpreads(g) ==
  {[cols |-> g.sub_cols + d[1], rows |-> g.sub_rows + d[2],
    px |-> [p \in (0 .. (g.sub_cols + d[1] - 1)) \X (0 .. (g.sub_rows + d[2] - 1)) |-> Pix(1, 2)]] :
     d \in {<<1, 0>>, <<0, 1>>, <<1, 1>>}}

\* Tile evaluation alone: any view over the inputs above, already constructed
TileInit ==
  /\ pc = "correlate"
  /\ run = 1
  /\ err = "none"
  /\ files = NoFiles
  /\ log = NoLog
  /\ tile = NoTile
  /\ workers = NoWorkers
  /\ hook = NoHook
  /\ \E g \in TileGeoms : \E win \in CropWins(g.left_cols, g.left_rows) :
       \/ /\ settings \in {[DefaultSettings EXCEPT !.seed_mode = 0, !.search_range = r,
                                                   !.trans_crop_win = win] :
                             r \in {UserRange, BBox(-3, 0, 4, 1)}}
          /\ view = MakeView(g, NullImage, NullImage, << >>, win)
       \/ \E mode \in 1..3, hom \in BOOLEAN :
          /\ settings = [DefaultSettings EXCEPT !.seed_mode = mode,
                                                !.search_range = UserRange,
                                                !.use_local_homography = hom,
                                                !.trans_crop_win = win]
          /\ view \in {MakeView(g, sub, spread, grid, win) :
                         sub \in Images(g.sub_cols, g.sub_rows, SeedValues),
                         spread \in Images(g.sub_cols, g.sub_rows, SpreadValues)
                                      \cup MismatchedSpreads(g)
                                      \cup (IF mode = 1 THEN {NullImage} ELSE {}),
                         grid \in IF hom THEN HomGrids(g.left_cols, g.left_rows)
                                         ELSE {<< >>}}
  /\ config = settings

\* one tile request per view: the result is a function of the view, the
\* settings and the bbox alone
TileNext ==
  /\ ~tile.done
  /\ \E bbox \in Tiles(view.left_cols, view.left_rows) : prerasterize(bbox)
  /\ UNCHANGED <<files, log>>

TileSpec == TileInit /\ [][TileNext]_vars

---------------------------------------------------------------------------
(* Threads inside prerasterize *)

\* a prerasterize_helper that keeps its search range in the global settings
SettingsAfterHelperStoresRange(S, range) == [S EXCEPT !.search_range = range]

\* stereo_settings() after prerasterize_helper computed a search range: the
\* range is a local, the settings are only read
SettingsAfterHelper(S, range) == S

\* a thread enters prerasterize(bbox): a tile outside the crop window comes
\* back at once, else prerasterize_helper is entered
worker_prerasterize(w, bbox) ==
  /\ pc = "correlate"
  /\ workers[w].st = "idle"
  /\ workers' = [workers EXCEPT ![w] =
       IF SkipsTile(view, bbox)
       THEN [IdleWorker EXCEPT !.st = "done", !.bbox = bbox,
                               !.cols = SkippedTile(bbox).cols,
                               !.rows = SkippedTile(bbox).rows,
                               !.px = SkippedTile(bbox).px]
       ELSE [IdleWorker EXCEPT !.st = "helper", !.bbox = bbox]]
  /\ UNCHANGED <<config, settings, files, pc, run, log, err, view, tile, hook>>

\* prerasterize_helper up to the search range: "User strategies"
worker_search_range(w) ==
  /\ workers[w].st = "helper"
  /\ LET helper == LocalSearchRange(view, settings, workers[w].bbox) IN
     /\ workers' = [workers EXCEPT ![w] =
          IF helper.err # "none"
          THEN [@ EXCEPT !.st = "failed", !.err = helper.err]
          ELSE [@ EXCEPT !.st = "engine", !.local_search_range = helper.range]]
     /\ settings' = IF helper.err # "none" THEN settings
                    ELSE SettingsAfterHelper(settings, helper.range)
  /\ UNCHANGED <<config, files, pc, run, log, err, view, tile, hook>>

\* prerasterize_helper: the PyramidCorrelationView of this tile is built
\* and rasterized
worker_engine(w) ==
  /\ workers[w].st = "engine"
  /\ \E pat \in EnginePatterns :
       workers' = [workers EXCEPT ![w] =
         [@ EXCEPT !.st = "mask", !.engine_calls = 1,
                   !.disparity = EngineOut(workers[w].bbox, pat)]]
  /\ UNCHANGED <<config, settings, files, pc, run, log, err, view, tile, hook>>

\* back in prerasterize: the pixels outside the crop window are invalidated
\* and the tile is returned
worker_mask(w) ==
  /\ workers[w].st = "mask"
  /\ workers' = [workers EXCEPT ![w] =
       [@ EXCEPT !.st = "done",
                 !.cols = width(workers[w].bbox), !.rows = height(workers[w].bbox),
                 !.px = MaskOutside(view, workers[w].bbox, workers[w].disparity)]]
  /\ UNCHANGED <<config, settings, files, pc, run, log, err, view, tile, hook>>

\* the views the threads work on: a 6 x 2 image over a coarse field of
\* 3 x 1, in seed mode 0 and in seed mode 1 with and without spread and
\* local homographies
WorkerSeeds ==
  {[cols |-> 3, rows |-> 1,
    px |-> (<<0, 0>> :> Pix(4, -2)) @@ (<<1, 0>> :> Invalid) @@ (<<2, 0>> :> Pix(-1, 1))],
   [cols |-> 3, rows |-> 1,
    px |-> (<<0, 0>> :> Invalid) @@ (<<1, 0>> :> Pix(-1, 1)) @@ (<<2, 0>> :> Invalid)]}

WorkerSpreads ==
  {NullImage,
   [cols |-> 3, rows |-> 1, px |-> [p \in (0 .. 2) \X {0} |-> Pix(1, 2)]],
   [cols |-> 4, rows |-> 2, px |-> [p \in (0 .. 3) \X (0 .. 1) |-> Pix(1, 2)]]}

WorkerInit ==
  /\ pc = "correlate"
  /\ run = 1
  /\ err = "none"
  /\ files = NoFiles
  /\ log = NoLog
  /\ tile = NoTile
  /\ workers = NoWorkers
  /\ hook = NoHook
  /\ LET g == [left_cols |-> 6, left_rows |-> 2, sub_cols |-> 3, sub_rows |-> 1] IN
     \E win \in CropWins(g.left_cols, g.left_rows) :
       \/ /\ settings = [DefaultSettings EXCEPT !.seed_mode = 0, !.search_range = UserRange,
                                                !.trans_crop_win = win]
          /\ view = MakeView(g, NullImage, NullImage, << >>, win)
       \/ \E hom \in BOOLEAN :
          /\ settings = [DefaultSettings EXCEPT !.seed_mode = 1,
                                                !.search_range = UserRange,
                                                !.use_local_homography = hom,
                                                !.trans_crop_win = win]
          /\ view \in {MakeView(g, sub, spread, grid, win) :
                         sub \in WorkerSeeds, spread \in WorkerSpreads,
                         grid \in IF hom THEN HomGrids(g.left_cols, g.left_rows)
                                         ELSE {<< >>}}
  /\ config = settings

WorkerNext ==
  \E w \in 1 .. NumWorkers :
    \/ \E bbox \in Tiles(view.left_cols, view.left_rows) : worker_prerasterize(w, bbox)
    \/ worker_search_range(w)
    \/ worker_engine(w)
    \/ worker_mask(w)

WorkerSpec == WorkerInit /\ [][WorkerNext]_vars

---------------------------------------------------------------------------
(* The low-resolution stage: lowres_correlation *)

\* StereoSettings::is_search_defined: the search range is not the zero box
is_search_defined(S) == S.search_range # ZeroBox

\* both crop windows differ from BBox2i(0, 0, 0, 0)
crop_left_and_right(S) ==
  S.left_image_crop_win # ZeroBox /\ S.right_image_crop_win # ZeroBox

\* the ranges the opaque estimator approximate_search_range may return
ApproxRanges == {BBox(-2, -1, 3, 2)}

\* what grow_bbox_to_int makes of a BBox2 no point was added to
GarbageRanges == {ZeroBox, BBox(1, 1, 0, 0)}

\* a homogeneous point with its third coordinate made non-negative
Norm(e) == IF e.W < 0 THEN [X |-> -e.X, Y |-> -e.Y, W |-> -e.W] ELSE e

\* a loop that keeps every pair with non-zero third coordinates, without
\* the test against the image sizes
IpKeptNoBoundsTest(F) ==
  LET AL == IF F.align_L.st = "ok" THEN F.align_L.m ELSE Identity3
      AR == IF F.align_R.st = "ok" THEN F.align_R.m ELSE Identity3
  IN {i \in 1 .. Len(F.match.ip1) :
        forward(AL, F.match.ip1[i]).W # 0 /\ forward(AR, F.match.ip2[i]).W # 0}

\* the matched pairs that pass the two tests of the loop: third coordinates
\* not zero, normalized points inside [0, size] of their image
IpKept(F) ==
  LET AL == IF F.align_L.st = "ok" THEN F.align_L.m ELSE Identity3
      AR == IF F.align_R.st = "ok" THEN F.align_R.m ELSE Identity3
      inside(e, size) ==
        /\ e.X <= size.cols * e.W /\ e.Y <= size.rows * e.W
        /\ e.X >= 0 /\ e.Y >= 0
  IN {i \in 1 .. Len(F.match.ip1) :
        LET l == Norm(forward(AL, F.match.ip1[i]))
            r == Norm(forward(AR, F.match.ip2[i]))
        IN l.W # 0 /\ r.W # 0 /\ inside(l, F.L) /\ inside(r, F.R)}

\* the search range from the match file: the box of the differences
\* right - left of the kept pairs, through grow_bbox_to_int
IpSearchRange(F) ==
  LET AL == IF F.align_L.st = "ok" THEN F.align_L.m ELSE Identity3
      AR == IF F.align_R.st = "ok" THEN F.align_R.m ELSE Identity3
      l(i) == Norm(forward(AL, F.match.ip1[i]))
      r(i) == Norm(forward(AR, F.match.ip2[i]))
      dx(i) == floor_q(r(i).X * l(i).W - l(i).X * r(i).W, r(i).W * l(i).W)
      dy(i) == floor_q(r(i).Y * l(i).W - l(i).Y * r(i).W, r(i).W * l(i).W)
      K == IpKept(F)
  IN [min |-> <<SetMin({dx(i) : i \in K}), SetMin({dy(i) : i \in K})>>,
      max |-> <<SetMax({dx(i) : i \in K}) + 1, SetMax({dy(i) : i \in K}) + 1>>]

\* "Working out search range if need be": the first part of lowres_correlation
lowres_search_range ==
  /\ pc = "start"
  /\ ~settings.skip_low_res_disparity_comp \/ settings.seed_mode = 0
  /\ IF is_search_defined(settings) \/ settings.seed_mode \in {2, 3}
     THEN UNCHANGED settings
     ELSE IF files.match.st = "absent"
          THEN \E r \in ApproxRanges : settings' = [settings EXCEPT !.search_range = r]
          ELSE IF IpKept(files) # {}
               THEN settings' = [settings EXCEPT !.search_range = IpSearchRange(files)]
               ELSE \E r \in GarbageRanges : settings' = [settings EXCEPT !.search_range = r]
  /\ pc' = "lowres_cache"
  /\ log' = [log EXCEPT !.lowres_correlation = @ + 1]
  /\ UNCHANGED <<config, files, run, err, view, tile, workers, hook>>

\* stereo_correlation skips lowres_correlation
skip_lowres ==
  /\ pc = "start"
  /\ ~(~settings.skip_low_res_disparity_comp \/ settings.seed_mode = 0)
  /\ pc' = "lowres_end"
  /\ UNCHANGED <<config, settings, files, run, log, err, view, tile, workers, hook>>

\* the search range of D_sub scaled to the full image: floor(min / scale),
\* ceil(max / scale), downsample_scale = L_sub size / lMask size
RangeOfDsub(F) ==
  LET r == get_disparity_range(F.D_sub.img.px) IN
  [min |-> <<floor_q(r.min[1] * F.L.cols, F.L_sub.cols), floor_q(r.min[2] * F.L.rows, F.L_sub.rows)>>,
   max |-> <<ceil_q(r.max[1] * F.L.cols, F.L_sub.cols), ceil_q(r.max[2] * F.L.rows, F.L_sub.rows)>>]

\* a read_search_range that has no early return for seed mode 0
read_search_range_any_mode(S, F) ==
  IF F.D_sub.st = "absent" THEN [err |-> "none", settings |-> S]
  ELSE IF F.D_sub.st = "corrupt" THEN [err |-> "IOErr", settings |-> S]
  ELSE [err |-> "none", settings |-> [S EXCEPT !.search_range = RangeOfDsub(F)]]

\* a read_search_range that returns at once in every seed mode
read_search_range_skipped(S, F) == [err |-> "none", settings |-> S]

\* read_search_range: the settings it leaves and the exception of read_image
read_search_range(S, F) ==
  IF S.seed_mode = 0 THEN [err |-> "none", settings |-> S]
  ELSE IF F.D_sub.st = "absent" THEN [err |-> "none", settings |-> S]
  ELSE IF F.D_sub.st = "corrupt" THEN [err |-> "IOErr", settings |-> S]
  ELSE [err |-> "none", settings |-> [S EXCEPT !.search_range = RangeOfDsub(F)]]

\* a selection that sends rm_quantile_multiple = 0 to the quantile filter
UsesQuantileFilterFromZero(S) == S.rm_quantile_multiple >= 0

\* the else branch of "rm_quantile_multiple <= 0.0": quantile based filtering
UsesQuantileFilter(S) == ~(S.rm_quantile_multiple <= 0)

\* corr_blob_filter_area * mean_scale as <<numerator, denominator>>,
\* mean_scale the mean of L_sub size / lMask size over the two axes
BlobFilterArea(S, F) ==
  <<S.corr_blob_filter_area * (F.L_sub.cols * F.L.rows + F.L_sub.rows * F.L.cols),
    2 * F.L.cols * F.L.rows>>

\* produce_lowres_disparity, img the field the low-resolution engine (seed
\* mode 1) or produce_dem_disparity (seed mode 2) comes up with; seed mode 3
\* writes nothing; read_search_range ends it
\* an integer vector multiplied in place by seed_percent_pad / 2.0f: each
\* component is the product converted back to an integer, toward zero
\* (the expansion of the padding by the full fraction instead of its half)
ExpansionFullPad(S, r) ==
  <<trunc_q(width(r) * S.seed_percent_pad[1], S.seed_percent_pad[2]),
    trunc_q(height(r) * S.seed_percent_pad[1], S.seed_percent_pad[2])>>

\* "Vector2i expansion(width, height); expansion *= seed_percent_pad / 2.0f"
Expansion(S, r) ==
  <<trunc_q(width(r) * S.seed_percent_pad[1], 2 * S.seed_percent_pad[2]),
    trunc_q(height(r) * S.seed_percent_pad[1], 2 * S.seed_percent_pad[2])>>

\* the global range in the subsampled image: floor and ceil of its corners
\* times downsample_scale = size of L_sub / size of lMask
SubsampledRange(S, F) ==
  BBox(floor_q(F.L_sub.cols * S.search_range.min[1], F.L.cols),
       floor_q(F.L_sub.rows * S.search_range.min[2], F.L.rows),
       ceil_q(F.L_sub.cols * S.search_range.max[1], F.L.cols),
       ceil_q(F.L_sub.rows * S.search_range.max[2], F.L.rows))

\* the search range pyramid_correlate gets in seed mode 1
D_sub_search_range(S, F) ==
  LET r == SubsampledRange(S, F)
      expansion == Expansion(S, r)
  IN BBox(r.min[1] - expansion[1], r.min[2] - expansion[2],
          r.max[1] + expansion[1], r.max[2] + expansion[2])

produce_lowres_disparity(S, F, img) ==
  LET written == IF S.seed_mode \in {1, 2}
                 THEN [F EXCEPT !.D_sub = [st |-> "ok", img |-> img],
                                !.local_hom_of = IF @ = "none" THEN "none" ELSE "older"]
                 ELSE F
      rd == read_search_range(S, written)
  IN [err |-> rd.err, settings |-> rd.settings, files |-> written,
      pyramid_correlate |-> IF S.seed_mode = 1 THEN 1 ELSE 0,
      search_range |-> IF S.seed_mode = 1 THEN D_sub_search_range(S, F) ELSE ZeroBox,
      filters |-> IF S.seed_mode # 1 THEN << >>
                  ELSE IF UsesQuantileFilter(S) THEN <<"rm_outliers_using_quantiles">>
                  ELSE <<"rm_outliers_using_thresh">>,
      blob_filter_area |-> IF S.seed_mode # 1 THEN << >>
                           ELSE IF UsesQuantileFilter(S) THEN <<0, 1>>
                           ELSE BlobFilterArea(S, F),
      produce_dem_disparity |-> IF S.seed_mode = 2 THEN 1 ELSE 0,
      D_sub_writes |-> IF S.seed_mode \in {1, 2} THEN 1 ELSE 0]

\* a probe that always asks for a rebuild
RebuildAlways(S, F) == TRUE

\* a probe that does not look at the crop windows
RebuildIgnoresCrop(S, F) == F.D_sub.st # "ok"

\* a probe whose catch clauses miss the exception of a corrupt file
RebuildMissesCorrupt(S, F) == crop_left_and_right(S) \/ F.D_sub.st = "absent"

\* rebuild after the probe of D_sub: set by both crop windows, by IOErr and
\* by ArgumentErr
Rebuild(S, F) == crop_left_and_right(S) \/ F.D_sub.st # "ok"

\* the D_sub fields a producer may write
PipeSeeds ==
  {[cols |-> 2, rows |-> 1, px |-> (<<0, 0>> :> Pix(4, -2)) @@ (<<1, 0>> :> Pix(-1, 1))],
   [cols |-> 2, rows |-> 1, px |-> (<<0, 0>> :> Invalid) @@ (<<1, 0>> :> Pix(1, 0))]}

\* "Performing disparity on sub images": the probe of the cached D_sub and
\* the call of produce_lowres_disparity
lowres_cache ==
  /\ pc = "lowres_cache"
  /\ IF settings.seed_mode > 0
     THEN IF Rebuild(settings, files)
          THEN \E img \in PipeSeeds :
                 LET p == produce_lowres_disparity(settings, files, img) IN
                 /\ settings' = p.settings
                 /\ files' = p.files
                 /\ err' = p.err
                 /\ pc' = IF p.err = "none" THEN "lowres_hom" ELSE "done"
                 /\ log' = [log EXCEPT !.rebuild = "true", !.probed = files.D_sub.st,
                                       !.failed_at = IF p.err = "none" THEN @ ELSE "lowres_cache",
                                       !.produce_lowres_disparity = @ + 1,
                                       !.pyramid_correlate = @ + p.pyramid_correlate,
                                       !.D_sub_search_range = p.search_range,
                                       !.filters = @ \o p.filters,
                                       !.blob_filter_area = p.blob_filter_area,
                                       !.produce_dem_disparity = @ + p.produce_dem_disparity,
                                       !.D_sub_writes = @ + p.D_sub_writes]
          ELSE /\ log' = [log EXCEPT !.rebuild = "false", !.probed = files.D_sub.st]
               /\ pc' = "lowres_hom"
               /\ UNCHANGED <<settings, files, err>>
     ELSE /\ pc' = "lowres_hom"
          /\ UNCHANGED <<settings, files, err, log>>
  /\ UNCHANGED <<config, run, view, tile, workers, hook>>

\* the grid create_local_homographies writes
IdentityGrid(F) == [t \in TileIdx(F.L.cols, F.L.rows) |-> Identity3]

\* "Create the local homographies based on D_sub": the last part of
\* lowres_correlation
lowres_homography ==
  /\ pc = "lowres_hom"
  /\ IF settings.seed_mode > 0 /\ settings.use_local_homography /\ files.local_hom.st # "ok"
     THEN /\ log' = [log EXCEPT !.create_local_homographies = @ + 1,
                                !.probed_hom = files.local_hom.st,
                                !.failed_at = IF files.D_sub.st = "ok" THEN @ ELSE "lowres_hom"]
          /\ IF files.D_sub.st = "ok"
             THEN /\ files' = [files EXCEPT !.local_hom = [st |-> "ok", grid |-> IdentityGrid(files)],
                                             !.local_hom_of = "D_sub"]
                  /\ pc' = "lowres_end"
                  /\ UNCHANGED err
             ELSE /\ err' = "IOErr"
                  /\ pc' = "done"
                  /\ UNCHANGED files
     ELSE /\ pc' = "lowres_end"
          /\ log' = [log EXCEPT !.probed_hom =
                       IF settings.seed_mode > 0 /\ settings.use_local_homography
                         THEN files.local_hom.st ELSE @]
          /\ UNCHANGED <<files, err>>
  /\ UNCHANGED <<config, settings, run, view, tile, workers, hook>>

---------------------------------------------------------------------------
(* The driver: stereo_correlation *)

\* runs of stereo_correlation on the same output prefix
MaxRuns == 2

\* a stereo_correlation without the return on compute_low_res_disparity_only
after_lowres_never_quits ==
  /\ pc = "lowres_end"
  /\ LET rd == read_search_range(settings, files) IN
     /\ settings' = rd.settings
     /\ err' = rd.err
     /\ pc' = IF rd.err = "none" THEN "load" ELSE "done"
     /\ log' = [log EXCEPT !.failed_at = IF rd.err = "none" THEN @ ELSE "read_search_range"]
  /\ UNCHANGED <<config, files, run, view, tile, workers, hook>>

\* after the low-resolution stage: quit if only D_sub was asked for, else
\* read_search_range
after_lowres ==
  /\ pc = "lowres_end"
  /\ IF settings.compute_low_res_disparity_only
     THEN /\ pc' = "done"
          /\ UNCHANGED <<settings, err, log>>
     ELSE LET rd == read_search_range(settings, files) IN
          /\ settings' = rd.settings
          /\ err' = rd.err
          /\ pc' = IF rd.err = "none" THEN "load" ELSE "done"
          /\ log' = [log EXCEPT !.failed_at = IF rd.err = "none" THEN @ ELSE "read_search_range"]
  /\ UNCHANGED <<config, files, run, view, tile, workers, hook>>

\* a loading that treats the spread as optional in every seed mode
LoadErrSpreadOptional(S, F) ==
  IF S.seed_mode > 0 /\ F.D_sub.st # "ok" THEN "IOErr"
  ELSE IF S.seed_mode > 0 /\ S.use_local_homography /\ F.local_hom.st # "ok" THEN "IOErr"
  ELSE "none"

\* the exception, if any, of opening D_sub, D_sub_spread and the homography
\* grid for the native resolution pass
LoadErr(S, F) ==
  IF S.seed_mode > 0 /\ F.D_sub.st # "ok" THEN "IOErr"
  ELSE IF S.seed_mode \in {2, 3} /\ F.D_sub_spread.st # "ok" THEN "IOErr"
  ELSE IF S.seed_mode > 0 /\ S.use_local_homography /\ F.local_hom.st # "ok" THEN "IOErr"
  ELSE "none"

\* the switch on cost_mode: census and ternary census need SGM, values
\* above 4 are unknown
CostModeErr(S) ==
  IF S.cost_mode \in {0, 1, 2} THEN "none"
  ELSE IF S.cost_mode \in {3, 4} THEN (IF ~S.use_sgm THEN "ArgumentErr" ELSE "none")
  ELSE "ArgumentErr"

\* "Load up for the actual native resolution processing", up to the
\* construction of the SeededCorrelatorView
load_inputs ==
  /\ pc = "load"
  /\ IF LoadErr(settings, files) # "none"
     THEN /\ err' = LoadErr(settings, files)
          /\ pc' = "done"
          /\ log' = [log EXCEPT !.failed_at = "load"]
          /\ UNCHANGED view
     ELSE IF CostModeErr(settings) # "none"
     THEN /\ err' = CostModeErr(settings)
          /\ pc' = "done"
          /\ log' = [log EXCEPT !.failed_at = "cost_mode"]
          /\ UNCHANGED view
     ELSE /\ view' = MakeView([left_cols |-> files.L.cols, left_rows |-> files.L.rows],
                              IF settings.seed_mode > 0 THEN files.D_sub.img ELSE NullImage,
                              IF settings.seed_mode > 0 /\ files.D_sub_spread.st = "ok"
                                THEN files.D_sub_spread.img ELSE NullImage,
                              IF settings.seed_mode > 0 /\ settings.use_local_homography
                                THEN files.local_hom.grid ELSE << >>,
                              settings.trans_crop_win)
          /\ pc' = "correlate"
          /\ UNCHANGED <<err, log>>
  /\ UNCHANGED <<config, settings, files, run, tile, workers, hook>>

\* block_write_gdal_image asks the view for one more tile of D
write_tile(bbox) ==
  /\ bbox \notin log.tiles
  /\ prerasterize(bbox)
  /\ log' = [log EXCEPT !.tiles = @ \cup {bbox},
                        !.failed_at = IF err' = "none" THEN @ ELSE "correlate"]
  /\ files' = [files EXCEPT !.D = [st |-> "partial"]]

\* every tile is written: D is complete and the run ends
write_done ==
  /\ pc = "correlate"
  /\ log.tiles = Tiles(view.left_cols, view.left_rows)
  /\ files' = [files EXCEPT !.D = [st |-> "ok"]]
  /\ pc' = "done"
  /\ UNCHANGED <<config, settings, run, log, err, view, tile, workers, hook>>

\* the next run of the program on the same output prefix: the settings are
\* parsed again, the files are what the runs before left
start_run ==
  /\ pc = "done"
  /\ run < MaxRuns
  /\ run' = run + 1
  /\ settings' = config
  /\ pc' = "start"
  /\ err' = "none"
  /\ log' = [NoLog EXCEPT !.earlier_pyramid_correlate =
                             log.earlier_pyramid_correlate + log.pyramid_correlate]
  /\ view' = NoView
  /\ tile' = NoTile
  /\ UNCHANGED <<config, files, workers, hook>>

\* the matched pairs of a match file
MaxIp == 2

\* interest points: inside the 4 x 2 image, on its border and outside
IpPoints == {<<0, 1>>, <<3, 0>>, <<4, 2>>, <<5, 1>>}

\* alignment matrices: one halves every coordinate, one has a third
\* coordinate x - 3 (zero at x = 3, negative left of it)
Halve == <<<<1, 0, 0>>, <<0, 1, 0>>, <<0, 0, 2>>>>

ZeroAt3 == <<<<1, 0, 0>>, <<0, 1, 0>>, <<1, 0, -3>>>>

\* the images of the runs: L and R are 4 x 2, L_sub and D_sub are 2 x 1
PipeFiles ==
  [NoFiles EXCEPT !.L = [cols |-> 4, rows |-> 2], !.R = [cols |-> 4, rows |-> 2],
                  !.L_sub = [cols |-> 2, rows |-> 1]]

\* files left by earlier runs that ended well: a readable -local_hom.txt
\* was computed from the -D_sub.tif beside it, or, when that is gone or
\* unreadable, from an older one
LeftByEarlierRuns(F) ==
  [F EXCEPT !.local_hom_of = IF F.local_hom.st # "ok" THEN "none"
                             ELSE IF F.D_sub.st = "ok" THEN "D_sub" ELSE "older"]

PipeSpread == [cols |-> 2, rows |-> 1, px |-> (<<0, 0>> :> Pix(1, 2)) @@ (<<1, 0>> :> Invalid)]

PipeMatch == [st |-> "ok", ip1 |-> <<(<<1, 1>>), (<<2, 0>>)>>, ip2 |-> <<(<<3, 0>>), (<<1, 1>>)>>]

PipeCrop == BBox(2, 0, 4, 2)

\* the settings a user may give
Configs ==
  {[DefaultSettings EXCEPT !.seed_mode = mode, !.search_range = range,
                           !.use_local_homography = hom,
                           !.left_image_crop_win = crops[1],
                           !.right_image_crop_win = crops[2],
                           !.trans_crop_win = IF crops[1] = ZeroBox THEN BBoxWH(0, 0, 4, 2)
                                                                    ELSE PipeCrop,
                           !.skip_low_res_disparity_comp = skip,
                           !.compute_low_res_disparity_only = only] :
     mode \in 0..3, range \in {ZeroBox, UserRange}, hom \in BOOLEAN,
     crops \in {<<ZeroBox, ZeroBox>>, <<PipeCrop, ZeroBox>>, <<PipeCrop, PipeCrop>>},
     skip \in BOOLEAN, only \in BOOLEAN}

Init ==
  /\ config \in {c \in Configs : c.seed_mode = 0 => ~c.use_local_homography}
  /\ settings = config
  /\ files \in {LeftByEarlierRuns([PipeFiles EXCEPT !.D_sub = dsub, !.D_sub_spread = spread,
                                                    !.local_hom = lhom, !.match = match]) :
                  dsub \in {Absent, [st |-> "corrupt"]} \cup {[st |-> "ok", img |-> i] : i \in PipeSeeds},
                  spread \in {Absent, [st |-> "ok", img |-> PipeSpread]},
                  lhom \in {Absent, [st |-> "corrupt"],
                            [st |-> "ok", grid |-> IdentityGrid(PipeFiles)]},
                  match \in {Absent, PipeMatch}}
  /\ pc = "start"
  /\ run = 1
  /\ err = "none"
  /\ log = NoLog
  /\ view = NoView
  /\ tile = NoTile
  /\ workers = NoWorkers
  /\ hook = NoHook

---------------------------------------------------------------------------
(* StereoSession::ip_matching *)

\* an ip_matching that returns what the matcher returned and leaves the file
AfterMatcherReturnsInlier(F, inlier) ==
  [err |-> "none", ret |-> IF inlier THEN "true" ELSE "false", files |-> F]

\* the end of ip_matching, F the files the matcher left: without inliers the
\* match file is removed and IOErr is thrown, else true is returned
AfterMatcher(F, inlier) ==
  IF ~inlier
  THEN [err |-> "IOErr", ret |-> "none", files |-> [F EXCEPT !.match = Absent]]
  ELSE [err |-> "none", ret |-> "true", files |-> F]

\* the match files a matcher may write
WrittenMatches ==
  {[st |-> "ok", ip1 |-> <<p>>, ip2 |-> <<q>>] : p \in IpPoints, q \in {<<3, 0>>, <<4, 2>>}}

\* ip_matching_w_alignment and homography_ip_matching: with inliers the
\* match file is written; without, it is written or left as it was
Matchers(F) ==
  {[inlier |-> TRUE, files |-> [F EXCEPT !.match = m]] : m \in WrittenMatches}
    \cup {[inlier |-> FALSE, files |-> [F EXCEPT !.match = m]] : m \in WrittenMatches}
    \cup {[inlier |-> FALSE, files |-> F]}

\* a cache test that does not look at the crop windows
UsesCachedMatchIgnoresCrop(S, F) == F.match.st # "absent"

\* "If we crop the images we must always create new matching files":
\* !crop_left_and_right && boost::filesystem::exists(match_filename)
UsesCachedMatch(S, F) == ~crop_left_and_right(S) /\ F.match.st # "absent"

\* StereoSession::ip_matching, called by the pre-processing of a session
\* before stereo_correlation runs on the same output prefix
ip_matching ==
  /\ pc = "ip_matching"
  /\ IF UsesCachedMatch(settings, files)
     THEN /\ log' = [log EXCEPT !.ip_matching = "true"]
          /\ pc' = "start"
          /\ UNCHANGED <<files, err>>
     ELSE \E nadir_facing \in BOOLEAN : \E m \in Matchers(files) :
            LET a == AfterMatcher(m.files, m.inlier) IN
            /\ files' = a.files
            /\ err' = a.err
            /\ log' = [log EXCEPT !.ip_matching = a.ret,
                                  !.matcher = IF nadir_facing THEN "ip_matching_w_alignment"
                                                              ELSE "homography_ip_matching",
                                  !.failed_at = IF a.err = "none" THEN @ ELSE "ip_matching"]
            /\ pc' = IF a.err = "none" THEN "start" ELSE "done"
  /\ UNCHANGED <<config, settings, run, view, tile, workers, hook>>

----------------------------------------------------------------------------
(* StereoSession::shared_preprocessing_hook *)

\* a cache test that takes every existing pair of outputs, readable or not
CachedOutputsUsableIfThere(S, F) ==
  /\ F.out_L.st # "absent"
  /\ F.out_R.st # "absent"
  /\ ~crop_left_and_right(S)

\* the outputs exist, not both crop windows are set, and both
\* DiskImageView open without ArgumentErr or IOErr
CachedOutputsUsable(S, F) ==
  /\ F.out_L.st # "absent"
  /\ F.out_R.st # "absent"
  /\ ~crop_left_and_right(S)
  /\ F.out_L.st = "ok"
  /\ F.out_R.st = "ok"

\* StereoSession::get_nodata_values: the value of the image if it has one,
\* else NaN; a user-supplied value that is not NaN overrides both
get_nodata_values(S, F) ==
  IF ~S.nodata_value.nan THEN <<S.nodata_value, S.nodata_value>>
  ELSE <<F.left_input.nodata, F.right_input.nodata>>

\* StereoSession::shared_preprocessing_hook, the two input images readable
shared_preprocessing_hook ==
  /\ pc = "hook"
  /\ pc' = "done"
  /\ IF CachedOutputsUsable(settings, files)
     THEN /\ hook' = [hook EXCEPT !.st = "returned_early",
                                   !.left_output_file = "-L.tif",
                                   !.right_output_file = "-R.tif"]
          /\ UNCHANGED files
     ELSE LET nodata == get_nodata_values(settings, files)
              crop_both == crop_left_and_right(settings)
              aligned == settings.alignment_method # "none"
          IN /\ hook' = [st |-> "returned",
                         left_output_file |-> "-L.tif",
                         right_output_file |-> "-R.tif",
                         left_cropped_file |-> IF crop_both THEN "-L-cropped.tif" ELSE "left_input_file",
                         right_cropped_file |-> IF crop_both THEN "-R-cropped.tif" ELSE "right_input_file",
                         left_nodata_value |-> nodata[1],
                         right_nodata_value |-> nodata[2],
                         options |-> "m_options, PREDICTOR 1",
                         has_left_georef |-> files.left_input.georef /\ ~aligned,
                         has_right_georef |-> files.right_input.georef /\ ~aligned,
                         left_georef |-> IF files.left_input.georef
                                         THEN (IF crop_both THEN "of -L-cropped.tif" ELSE "of left_input_file")
                                         ELSE hook.left_georef,
                         right_georef |-> IF files.right_input.georef
                                          THEN (IF crop_both THEN "of -R-cropped.tif" ELSE "of right_input_file")
                                          ELSE hook.right_georef]
             /\ files' = IF crop_both
                         THEN [files EXCEPT !.L_cropped = [st |-> "ok"], !.R_cropped = [st |-> "ok"]]
                         ELSE files
  /\ UNCHANGED <<config, settings, run, log, err, view, tile, workers>>

\* the values the reference arguments hold when the caller has used them before
UsedHook ==
  [NoHook EXCEPT !.left_cropped_file = "-L-cropped.tif", !.right_cropped_file = "-R-cropped.tif",
                 !.left_nodata_value = Float(-1), !.right_nodata_value = Float(-1),
                 !.options = "caller, PREDICTOR 2",
                 !.has_left_georef = TRUE, !.has_right_georef = TRUE]

FileStates == {Absent, [st |-> "corrupt"], [st |-> "ok"]}

\* a session about to call the hook: every state of -L.tif and -R.tif, no,
\* one or both crop windows, with and without alignment, georeference and
\* user no-data value
HookInit ==
  /\ config \in {[DefaultSettings EXCEPT !.left_image_crop_win = crops[1],
                                         !.right_image_crop_win = crops[2],
                                         !.alignment_method = align,
                                         !.nodata_value = nodata] :
                   crops \in {<<ZeroBox, ZeroBox>>, <<PipeCrop, ZeroBox>>, <<PipeCrop, PipeCrop>>},
                   align \in {"none", "homography"},
                   nodata \in {NaN, Float(0)}}
  /\ settings = config
  /\ files \in {[PipeFiles EXCEPT !.out_L = l, !.out_R = r,
                                  !.left_input = [nodata |-> Float(-32768), georef |-> g],
                                  !.right_input = [nodata |-> NaN, georef |-> g]] :
                  l \in FileStates, r \in FileStates, g \in BOOLEAN}
  /\ pc = "hook"
  /\ run = 1
  /\ err = "none"
  /\ log = NoLog
  /\ view = NoView
  /\ tile = NoTile
  /\ workers = NoWorkers
  /\ hook \in {NoHook, UsedHook}

HookNext == shared_preprocessing_hook

HookSpec == HookInit /\ [][HookNext]_vars

\* a session about to match interest points: with and without crop
\* windows, with and without a match file of an earlier run
SessionInit ==
  /\ config \in {[DefaultSettings EXCEPT !.seed_mode = mode,
                                         !.left_image_crop_win = crops[1],
                                         !.right_image_crop_win = crops[2],
                                         !.trans_crop_win = BBoxWH(0, 0, 4, 2)] :
                   mode \in {0, 1},
                   crops \in {<<ZeroBox, ZeroBox>>, <<PipeCrop, ZeroBox>>, <<PipeCrop, PipeCrop>>}}
  /\ settings = config
  /\ files \in {[PipeFiles EXCEPT !.match = m] : m \in {Absent, PipeMatch}}
  /\ pc = "ip_matching"
  /\ run = 1
  /\ err = "none"
  /\ log = NoLog
  /\ view = NoView
  /\ tile = NoTile
  /\ workers = NoWorkers
  /\ hook = NoHook

SessionNext ==
  \/ ip_matching
  \/ lowres_search_range

SessionSpec == SessionInit /\ [][SessionNext]_vars

\* lowres_correlation on a match file: no user range, seed mode 0 or 1,
\* every match file of MaxIp pairs, with and without alignment matrices
IpInit ==
  /\ config \in {[DefaultSettings EXCEPT !.seed_mode = mode,
                                         !.trans_crop_win = BBoxWH(0, 0, 4, 2)] : mode \in {0, 1}}
  /\ settings = config
  /\ files \in {[PipeFiles EXCEPT !.match = [st |-> "ok", ip1 |-> p1, ip2 |-> p2],
                                  !.align_L = al, !.align_R = ar] :
                  p1 \in [1 .. MaxIp -> IpPoints], p2 \in [1 .. MaxIp -> IpPoints],
                  al \in {Absent, [st |-> "ok", m |-> Halve]},
                  ar \in {Absent, [st |-> "ok", m |-> ZeroAt3]}}
  /\ pc = "start"
  /\ run = 1
  /\ err = "none"
  /\ log = NoLog
  /\ view = NoView
  /\ tile = NoTile
  /\ workers = NoWorkers
  /\ hook = NoHook

IpNext == lowres_search_range

IpSpec == IpInit /\ [][IpNext]_vars

Next ==
  \/ lowres_search_range
  \/ skip_lowres
  \/ lowres_cache
  \/ lowres_homography
  \/ after_lowres
  \/ load_inputs
  \/ \E bbox \in Tiles(view.left_cols, view.left_rows) : write_tile(bbox)
  \/ write_done
  \/ start_run

Spec == Init /\ [][Next]_vars

\* the cost modes and SGM flags a user may give: cross correlation, census
\* without and with SGM, ternary census without SGM, an unknown mode
CostModes == {<<2, FALSE>>, <<3, FALSE>>, <<3, TRUE>>, <<4, FALSE>>, <<5, TRUE>>}

\* the values of rm_quantile_multiple a user may give
QuantileMultiples == {-1, 0, 2}

\* runs under every cost mode and filter selection, with a spread file that
\* is absent, unreadable or readable
OptInit ==
  /\ config \in {[DefaultSettings EXCEPT !.seed_mode = mode,
                                         !.use_local_homography = hom,
                                         !.trans_crop_win = BBoxWH(0, 0, 4, 2),
                                         !.skip_low_res_disparity_comp = skip,
                                         !.cost_mode = cost[1], !.use_sgm = cost[2],
                                         !.rm_quantile_multiple = q] :
                   mode \in 0 .. 3, hom \in BOOLEAN, skip \in BOOLEAN,
                   cost \in CostModes, q \in QuantileMultiples}
  /\ config.seed_mode = 0 => ~config.use_local_homography
  /\ settings = config
  /\ files \in {LeftByEarlierRuns([PipeFiles EXCEPT !.D_sub = dsub, !.D_sub_spread = spread,
                                                    !.local_hom = lhom]) :
                  dsub \in {Absent} \cup {[st |-> "ok", img |-> i] : i \in PipeSeeds},
                  spread \in {Absent, [st |-> "corrupt"], [st |-> "ok", img |-> PipeSpread]},
                  lhom \in {Absent, [st |-> "ok", grid |-> IdentityGrid(PipeFiles)]}}
  /\ pc = "start"
  /\ run = 1
  /\ err = "none"
  /\ log = NoLog
  /\ view = NoView
  /\ tile = NoTile
  /\ workers = NoWorkers
  /\ hook = NoHook

OptSpec == OptInit /\ [][Next]_vars

\* the values of seed_percent_pad a user may give, as quotients: none, the
\* default 25%, 10%, 50% and 100%
PercentPads == {<<0, 1>>, <<1, 4>>, <<1, 10>>, <<1, 2>>, <<1, 1>>}

\* the global ranges a user may give with --corr-search
PadRanges == {UserRange, BBox(-3, 0, 4, 1), BBox(0, 0, 7, 3), BBox(-9, -2, -1, 6)}

\* the sizes of the left image over a 2 x 1 L_sub: the downsample scale is
\* 1/2, 1/3 or 2/5 in x and 1/2 in y
PadLeftSizes == {[cols |-> 4, rows |-> 2], [cols |-> 6, rows |-> 2], [cols |-> 5, rows |-> 2]}

\* lowres_correlation in seed mode 1 with nothing cached, for every padding,
\* user range and downsample scale
PadInit ==
  /\ config \in {[DefaultSettings EXCEPT !.seed_mode = 1, !.search_range = r,
                                         !.seed_percent_pad = pad] :
                   r \in PadRanges, pad \in PercentPads}
  /\ settings = config
  /\ files \in {[PipeFiles EXCEPT !.L = l] : l \in PadLeftSizes}
  /\ pc = "start"
  /\ run = 1
  /\ err = "none"
  /\ log = NoLog
  /\ view = NoView
  /\ tile = NoTile
  /\ workers = NoWorkers
  /\ hook = NoHook

\* the integers a corner of a padded low-resolution range can take
PadCoords == -60 .. 60

PadNext == lowres_search_range \/ lowres_cache

PadSpec == PadInit /\ [][PadNext]_vars

---------------------------------------------------------------------------
(* Tile evaluation: the crop window *)

\* C1: a tile whose bbox does not intersect the crop window comes back with
\* exactly bbox.width() x bbox.height() cells, all of them invalid, and the
\* matching engine is not invoked for it.
C1_SkippedTileAllInvalid ==
  (tile.done /\ empty(crop(tile.bbox, view.m_trans_crop_win))) =>
    /\ tile.cols = width(tile.bbox)
    /\ tile.rows = height(tile.bbox)
    /\ DOMAIN tile.px = Cells(tile.bbox)
    /\ \A p \in Cells(tile.bbox) : ~tile.px[p].valid
    /\ tile.engine_calls = 0

\* a non-empty tile outside the window on one axis only has been evaluated
C1_Witness ==
  /\ tile.done
  /\ ~empty(tile.bbox)
  /\ empty(crop(tile.bbox, view.m_trans_crop_win))
  /\ \E i \in 1..2 : crop(tile.bbox, view.m_trans_crop_win).min[i]
                       < crop(tile.bbox, view.m_trans_crop_win).max[i]

\* C2: for a tile that intersects the crop window, every returned cell
\* outside the window is invalid and every cell inside the window holds
\* exactly what the engine produced for it.
C2_MaskedOutsideKeptInside ==
  (tile.done /\ ~empty(crop(tile.bbox, view.m_trans_crop_win))) =>
    /\ tile.engine_calls = 1
    /\ \A p \in Cells(tile.bbox) :
         IF /\ view.m_trans_crop_win.min[1] <= p[1] /\ p[1] < view.m_trans_crop_win.max[1]
            /\ view.m_trans_crop_win.min[2] <= p[2] /\ p[2] < view.m_trans_crop_win.max[2]
         THEN tile.px[p] = tile.engine_px[p]
         ELSE ~tile.px[p].valid

\* a partially overlapping tile for which the engine produced a valid cell
\* inside the window and a valid cell on the window's max edge, outside it
C2_Witness ==
  /\ tile.done
  /\ tile.engine_calls = 1
  /\ \E p \in Cells(tile.bbox) : contains(view.m_trans_crop_win, p) /\ tile.engine_px[p].valid
  /\ \E p \in Cells(tile.bbox) :
       /\ tile.engine_px[p].valid
       /\ ~tile.px[p].valid
       /\ p[1] = view.m_trans_crop_win.max[1]

---------------------------------------------------------------------------
(* Tile evaluation: the search range handed to the engine *)

\* the valid seed cells of the sub-region of the evaluated tile
ValidSeedCells ==
  {p \in Cells(SeedBBox(view, tile.bbox)) : view.m_sub_disp.px[p].valid}

\* the evaluated tile lies inside the crop window and inside the image
TileInsideWindow ==
  /\ Encloses(view.m_trans_crop_win, tile.bbox)
  /\ Encloses(ViewBox(view), tile.bbox)

\* C3: seed mode > 0, no local homography, no spread, tile inside the crop
\* window and the seed extent, at least one valid seed cell in its
\* sub-region: per axis the range handed to the engine contains
\* [(dmin - 1) * scale, (dmax + 1) * scale], dmin and dmax the extremes of
\* the valid seed disparities of the sub-region, scale = left size / seed
\* size. A single valid cell (4,-2) with scale (8,8) gives at least
\* [24,40] x [-24,-8].
C3_RangeContainsSeedRange ==
  (/\ tile.done
   /\ tile.engine_calls = 1
   /\ settings.seed_mode > 0
   /\ ~settings.use_local_homography
   /\ view.m_sub_disp_spread.cols = 0
   /\ TileInsideWindow
   /\ ValidSeedCells # {}) =>
    /\ \A i \in 1..2 :
         LET num == IF i = 1 THEN view.left_cols ELSE view.left_rows
             den == IF i = 1 THEN view.m_sub_disp.cols ELSE view.m_sub_disp.rows
         IN \A p \in ValidSeedCells :
              /\ tile.search_range.min[i] * den <= (view.m_sub_disp.px[p].v[i] - 1) * num
              /\ (view.m_sub_disp.px[p].v[i] + 1) * num <= tile.search_range.max[i] * den
    /\ (/\ view.left_cols = 8 * view.m_sub_disp.cols
        /\ view.left_rows = 8 * view.m_sub_disp.rows
        /\ {view.m_sub_disp.px[p].v : p \in ValidSeedCells} = {<<4, -2>>}) =>
         /\ tile.search_range.min[1] <= 24 /\ 40 <= tile.search_range.max[1]
         /\ tile.search_range.min[2] <= -24 /\ -8 <= tile.search_range.max[2]

\* the scenario of the claim: one valid seed cell (4,-2), scale (8,8)
C3_Witness ==
  /\ tile.done
  /\ tile.engine_calls = 1
  /\ settings.seed_mode > 0
  /\ ~settings.use_local_homography
  /\ view.m_sub_disp_spread.cols = 0
  /\ TileInsideWindow
  /\ view.left_cols = 8 * view.m_sub_disp.cols
  /\ view.left_rows = 8 * view.m_sub_disp.rows
  /\ {view.m_sub_disp.px[p].v : p \in ValidSeedCells} = {<<4, -2>>}

\* C4: the search range handed to the engine is never empty, and when the
\* seed sub-region of the tile holds no valid cell it is the global search
\* range, stereo_settings().search_range.
C4_FallsBackToGlobalRange ==
  (tile.done /\ tile.engine_calls = 1) =>
    /\ ~empty(tile.search_range)
    /\ (settings.seed_mode > 0 /\ ValidSeedCells = {}) =>
         tile.search_range = settings.search_range

\* C5: with a spread field of the seed's dimensions, the range handed to
\* the engine contains the range the same seed gives with no spread, with
\* and without local homography.
C5_SpreadNeverShrinks ==
  (/\ tile.done
   /\ tile.engine_calls = 1
   /\ settings.seed_mode > 0
   /\ view.m_sub_disp_spread.cols # 0) =>
    Encloses(tile.search_range,
             LocalSearchRange([view EXCEPT !.m_sub_disp_spread = NullImage],
                              settings, tile.bbox).range)

---------------------------------------------------------------------------
(* The runs of stereo_correlation *)

\* C6: with seed mode 0 and a user-supplied global search range, the range
\* handed to the engine is exactly that range for every tile, and nothing in
\* the run, read_search_range included, changes the global range.
C6_SeedModeNoneUsesGlobalRange ==
  (config.seed_mode = 0 /\ config.search_range # ZeroBox) =>
    /\ settings.search_range = config.search_range
    /\ (tile.done /\ tile.engine_calls = 1) => tile.search_range = config.search_range

\* a tile went to the engine in seed mode 0 under the user's range, after
\* read_search_range, with a readable D_sub of an earlier seeded run on disk
C6_Witness ==
  /\ config.seed_mode = 0
  /\ config.search_range = UserRange
  /\ files.D_sub.st = "ok"
  /\ tile.done
  /\ tile.engine_calls = 1
  /\ tile.search_range = UserRange

\* C7: with seed mode > 0, a readable D_sub and not both crop windows set,
\* lowres_correlation neither calls produce_lowres_disparity nor rewrites
\* D_sub; so a second run on the same inputs with no crop window invokes the
\* low-resolution engine zero times.
C7_CacheHit ==
  /\ (config.seed_mode > 0 /\ log.probed = "ok" /\ ~crop_left_and_right(config)) =>
       /\ log.rebuild = "false"
       /\ log.produce_lowres_disparity = 0
       /\ log.pyramid_correlate = 0
       /\ log.produce_dem_disparity = 0
       /\ log.D_sub_writes = 0
  /\ (run >= 2 /\ ~crop_left_and_right(config)) => log.pyramid_correlate = 0

\* the second run found the D_sub the low-resolution engine wrote in the first
C7_Witness ==
  /\ run = 2
  /\ config.seed_mode = 1
  /\ log.earlier_pyramid_correlate = 1
  /\ log.probed = "ok"
  /\ log.rebuild = "false"

\* C8, as claimed: with both crop windows set, every run recomputes the
\* coarse field, invoking the matching engine, even with a readable D_sub.
C8_EveryRunRecomputes ==
  (/\ config.seed_mode > 0
   /\ crop_left_and_right(config)
   /\ pc = "done"
   /\ err = "none") => log.pyramid_correlate >= 1

\* C8, amended: with both crop windows set and seed mode > 0, a run that
\* does not skip lowres_correlation calls produce_lowres_disparity whatever
\* the state of D_sub; that invokes the low-resolution engine and rewrites
\* D_sub in seed mode 1, runs produce_dem_disparity in seed mode 2 and
\* writes nothing in seed mode 3. A run that skips lowres_correlation
\* recomputes nothing.
C8_RecomputesInSeedMode1 ==
  (config.seed_mode > 0 /\ crop_left_and_right(config)) =>
    /\ (~config.skip_low_res_disparity_comp /\ pc \notin {"start", "lowres_cache"}) =>
         /\ log.rebuild = "true"
         /\ log.produce_lowres_disparity = 1
         /\ log.pyramid_correlate = (IF config.seed_mode = 1 THEN 1 ELSE 0)
         /\ log.produce_dem_disparity = (IF config.seed_mode = 2 THEN 1 ELSE 0)
         /\ log.D_sub_writes = (IF config.seed_mode \in {1, 2} THEN 1 ELSE 0)
    /\ config.skip_low_res_disparity_comp =>
         log.produce_lowres_disparity = 0 /\ log.D_sub_writes = 0

\* with both crop windows set the engine ran although D_sub was readable
C8_Witness ==
  /\ config.seed_mode = 1
  /\ crop_left_and_right(config)
  /\ log.probed = "ok"
  /\ log.pyramid_correlate = 1
  /\ log.D_sub_writes = 1

\* C9, as claimed: a corrupt D_sub is handled like an absent one in every
\* seed mode > 0: rebuild is set, the field is recomputed and no error comes
\* out of the cache stage.
C9_CorruptLikeAbsent ==
  (config.seed_mode > 0 /\ log.probed \in {"absent", "corrupt"}) =>
    /\ log.rebuild = "true"
    /\ log.D_sub_writes = 1
    /\ log.failed_at # "lowres_cache"

\* C9, amended: in seed modes 1 and 2 a corrupt D_sub is handled like an
\* absent one: rebuild is set, produce_lowres_disparity rewrites D_sub and
\* no error comes out of the cache stage. In seed mode 3 rebuild is set and
\* produce_lowres_disparity is called too, but nothing is rewritten: a
\* corrupt D_sub then makes read_search_range throw, an absent one does not.
C9_CorruptLikeAbsentWhenProduced ==
  (config.seed_mode > 0 /\ log.probed \in {"absent", "corrupt"}) =>
    /\ log.rebuild = "true"
    /\ log.produce_lowres_disparity = 1
    /\ config.seed_mode \in {1, 2} =>
         /\ log.D_sub_writes = 1
         /\ log.failed_at # "lowres_cache"
         /\ pc \in {"lowres_hom", "lowres_end"} => files.D_sub.st = "ok" /\ err = "none"
    /\ config.seed_mode = 3 =>
         /\ log.D_sub_writes = 0
         /\ (log.failed_at = "lowres_cache") = (log.probed = "corrupt")

\* a corrupt D_sub was replaced and the low-resolution stage went on
C9_Witness ==
  /\ config.seed_mode \in {1, 2}
  /\ log.probed = "corrupt"
  /\ files.D_sub.st = "ok"
  /\ pc = "lowres_end"
  /\ err = "none"

\* C10: in seed mode 3, reaching produce_lowres_disparity with D_sub absent
\* is an error: the low-resolution stage does not complete normally.
C10_AbsentExternalSeedIsError ==
  (config.seed_mode = 3 /\ log.probed = "absent" /\ log.produce_lowres_disparity = 1) =>
    ~(pc = "lowres_end" /\ err = "none")

---------------------------------------------------------------------------
(* The homography grid *)

\* C11: with seed mode > 0 and local homography enabled, a homography grid
\* that is missing or corrupt when lowres_correlation loads it is recomputed
\* as a whole by create_local_homographies and the stage goes on without an
\* error; a grid that loads is not recomputed.
C11_GridRecomputedWhole ==
  (config.seed_mode > 0 /\ config.use_local_homography) =>
    /\ log.probed_hom \in {"absent", "corrupt"} =>
         /\ log.create_local_homographies = 1
         /\ log.failed_at # "lowres_hom"
         /\ files.local_hom.st = "ok"
         /\ DOMAIN files.local_hom.grid = TileIdx(files.L.cols, files.L.rows)
    /\ log.probed_hom = "ok" => log.create_local_homographies = 0

---------------------------------------------------------------------------
(* The global search range *)

\* C12, as claimed: a user-specified global search range is never replaced
\* or altered during the run, in every seed mode.
C12_UserRangeNeverAltered ==
  config.search_range # ZeroBox => settings.search_range = config.search_range

\* C12, amended: a user-specified global search range is never replaced by
\* the estimators of lowres_correlation (feature points, approximate
\* estimate), in every seed mode, and in seed mode 0 nothing alters it
\* during the run. In seed modes > 0 read_search_range replaces it by the
\* range of the coarse field whenever D_sub is readable, so the native
\* resolution pass starts with the range of D_sub, not the user's.
C12_UserRangeUntilReadBack ==
  config.search_range # ZeroBox =>
    /\ pc = "lowres_cache" => settings.search_range = config.search_range
    /\ config.seed_mode = 0 => settings.search_range = config.search_range
    /\ settings.search_range # config.search_range =>
         /\ config.seed_mode > 0
         /\ files.D_sub.st = "ok"
         /\ settings.search_range = RangeOfDsub(files)
    /\ (config.seed_mode > 0 /\ pc \in {"load", "correlate"} /\ files.D_sub.st = "ok") =>
         settings.search_range = RangeOfDsub(files)

\* the user's range was kept although a match file was there, and the native
\* resolution pass runs under the range read back from D_sub
C12_Witness ==
  /\ config.search_range = UserRange
  /\ config.seed_mode = 1
  /\ files.match.st = "ok"
  /\ pc = "correlate"
  /\ settings.search_range = RangeOfDsub(files)
  /\ settings.search_range # UserRange

---------------------------------------------------------------------------
(* The search range from matched interest points *)

\* the aligned points of pair i as quotients with a positive denominator
C13_Left(i) ==
  Norm(forward(IF files.align_L.st = "ok" THEN files.align_L.m ELSE Identity3,
               files.match.ip1[i]))

C13_Right(i) ==
  Norm(forward(IF files.align_R.st = "ok" THEN files.align_R.m ELSE Identity3,
               files.match.ip2[i]))

\* the pairs the claim counts: third coordinates not zero on both sides and
\* normalized coordinates inside [0, width] x [0, height] of their image
C13_Pairs ==
  {i \in 1 .. Len(files.match.ip1) :
     LET l == C13_Left(i)
         r == C13_Right(i)
     IN /\ l.W # 0 /\ r.W # 0
        /\ 0 <= l.X /\ l.X <= files.L.cols * l.W /\ 0 <= l.Y /\ l.Y <= files.L.rows * l.W
        /\ 0 <= r.X /\ r.X <= files.R.cols * r.W /\ 0 <= r.Y /\ r.Y <= files.R.rows * r.W}

\* the difference right - left of pair i as num / den, den > 0
C13_Diff(i) ==
  LET l == C13_Left(i)
      r == C13_Right(i)
  IN [num |-> <<r.X * l.W - l.X * r.W, r.Y * l.W - l.Y * r.W>>, den |-> r.W * l.W]

\* C13: with no user range, seed mode 0 or 1 and a match file, the global
\* search range lowres_correlation sets is the integer box rounded outward
\* around the differences right - left of exactly the pairs with non-zero
\* third coordinates and normalized points inside their images: every such
\* difference lies in [min, max), min is the floor of the smallest and max
\* is within one above the largest; other pairs contribute nothing.
C13_RangeFromMatchedPairs ==
  (pc = "lowres_cache" /\ files.match.st = "ok" /\ C13_Pairs # {}) =>
    \A a \in 1 .. 2 :
      LET lo == settings.search_range.min[a]
          hi == settings.search_range.max[a]
      IN /\ \A i \in C13_Pairs :
              LET d == C13_Diff(i) IN
              lo * d.den <= d.num[a] /\ d.num[a] < hi * d.den
         /\ \E i \in C13_Pairs :
              LET d == C13_Diff(i) IN d.num[a] < (lo + 1) * d.den
         /\ \E i \in C13_Pairs :
              LET d == C13_Diff(i) IN (hi - 1) * d.den <= d.num[a]

\* a pair with a zero third coordinate was skipped, a pair outside its image
\* was skipped, and a kept pair with a fractional difference set the range
C13_Witness ==
  /\ pc = "lowres_cache"
  /\ files.align_L.st = "ok"
  /\ files.align_R.st = "ok"
  /\ C13_Right(1).W = 0
  /\ C13_Pairs = {2}
  /\ C13_Diff(2).num[1] % C13_Diff(2).den # 0
  /\ settings.search_range # ZeroBox

---------------------------------------------------------------------------
(* Interest point matching *)

\* C14: when the matcher reports no inliers, ip_matching removes the match
\* file and fails with IOErr, having called the matcher once and returned
\* nothing; when it reports inliers, ip_matching returns true and the match
\* file the matcher wrote is kept. ip_matching never returns false.
C14_NoInliersDeletesAndThrows ==
  /\ log.ip_matching # "false"
  /\ log.failed_at = "ip_matching" =>
       /\ err = "IOErr"
       /\ files.match.st = "absent"
       /\ log.ip_matching = "none"
       /\ log.matcher # "none"
       /\ log.lowres_correlation = 0
  /\ (log.matcher # "none" /\ log.failed_at # "ip_matching") =>
       /\ log.ip_matching = "true"
       /\ files.match \in WrittenMatches
       /\ err = "none"

\* both crop windows forced the matcher to run, it found no inliers, and no
\* match file is left behind the IOErr
C14_Witness ==
  /\ crop_left_and_right(config)
  /\ log.matcher = "homography_ip_matching"
  /\ log.failed_at = "ip_matching"
  /\ files.match.st = "absent"
  /\ err = "IOErr"
  /\ pc = "done"

---------------------------------------------------------------------------
(* Configuration errors *)

\* C15: a contradictory configuration (cost mode 3 or 4 without SGM, or an
\* unknown cost mode) makes stereo_correlation fail with ArgumentErr before
\* any tile is evaluated, and when the error is raised the run has written
\* no output: no D_sub, no homography grid, no part of D.
C15_NoOutputBeforeCostModeError ==
  /\ (CostModeErr(config) # "none") => pc # "correlate" /\ log.tiles = {}
  /\ log.failed_at = "cost_mode" =>
       /\ err = "ArgumentErr"
       /\ log.D_sub_writes = 0
       /\ log.create_local_homographies = 0
       /\ log.tiles = {}


\* C16: a spread field of non-zero size whose columns or rows differ from
\* those of the coarse field makes tile evaluation fail with ArgumentErr:
\* no search range is computed from it and the engine is not invoked.
C16_MismatchedSpreadFails ==
  (/\ settings.seed_mode > 0
   /\ view.m_sub_disp_spread.cols # 0 /\ view.m_sub_disp_spread.rows # 0
   /\ \/ view.m_sub_disp_spread.cols # view.m_sub_disp.cols
      \/ view.m_sub_disp_spread.rows # view.m_sub_disp.rows) =>
    /\ tile.engine_calls = 0
    /\ (tile.bbox # ZeroBox /\ ~SkipsTile(view, tile.bbox)) => err = "ArgumentErr"

---------------------------------------------------------------------------
(* The outlier filter of the coarse field *)

\* C17: in seed mode 1 exactly one outlier filter runs on the coarse field
\* the low-resolution engine produced: with rm_quantile_multiple <= 0 the
\* threshold filter, the engine being given the blob filter area
\* corr_blob_filter_area * mean_scale; with rm_quantile_multiple > 0 the
\* quantile filter, the engine being given blob filter area 0. Without a
\* call of the engine no filter runs.
C17_OneOutlierFilter ==
  /\ log.pyramid_correlate = 0 => log.filters = << >>
  /\ log.pyramid_correlate = 1 =>
       /\ config.seed_mode = 1
       /\ Len(log.filters) = 1
       /\ Len(log.blob_filter_area) = 2
       /\ IF config.rm_quantile_multiple <= 0
          THEN /\ log.filters[1] = "rm_outliers_using_thresh"
               /\ log.blob_filter_area[1] * 2 * files.L.cols * files.L.rows
                    = log.blob_filter_area[2] * config.corr_blob_filter_area
                        * (files.L_sub.cols * files.L.rows + files.L_sub.rows * files.L.cols)
          ELSE /\ log.filters[1] = "rm_outliers_using_quantiles"
               /\ log.blob_filter_area[1] = 0

\* the quantile filter ran on a coarse field computed without blob filtering
C17_Witness ==
  /\ config.seed_mode = 1
  /\ config.rm_quantile_multiple > 0
  /\ log.pyramid_correlate = 1
  /\ log.D_sub_writes = 1
  /\ log.filters = <<"rm_outliers_using_quantiles">>
  /\ log.blob_filter_area = <<0, 1>>

---------------------------------------------------------------------------
(* Tile evaluation by several threads *)

\* the tile thread w returned is the tile prerasterize gives for its bbox on
\* the view and the settings as they were before any thread started
C18_ResultAlone(w) ==
  LET t == workers[w] IN
  IF SkipsTile(view, t.bbox)
  THEN t.engine_calls = 0 /\ t.px = SkippedTile(t.bbox).px
  ELSE /\ t.engine_calls = 1
       /\ t.local_search_range = LocalSearchRange(view, config, t.bbox).range
       /\ t.px = MaskOutside(view, t.bbox, t.disparity)
       /\ t.cols = width(t.bbox) /\ t.rows = height(t.bbox)

\* C18: prerasterize writes no shared state (coarse field, spread field,
\* homography grid, crop window, global settings, files), so under every
\* interleaving of the threads each returned tile is the tile that
\* evaluating its bbox alone gives, and two evaluations of the same bbox
\* hand the engine the same search range and, for the same engine output,
\* return the same tile.
C18_TilesIndependent ==
  /\ [](\A w \in 1 .. NumWorkers : workers[w].st = "done" => C18_ResultAlone(w))
  /\ [](\A w1, w2 \in 1 .. NumWorkers :
          (/\ workers[w1].st \in {"mask", "done"} /\ workers[w2].st \in {"mask", "done"}
           /\ workers[w1].bbox = workers[w2].bbox) =>
            /\ workers[w1].local_search_range = workers[w2].local_search_range
            /\ (/\ workers[w1].st = "done" /\ workers[w2].st = "done"
                /\ workers[w1].disparity = workers[w2].disparity) =>
                 workers[w1].px = workers[w2].px)
  /\ [][/\ settings' = settings /\ view' = view /\ config' = config
        /\ files' = files /\ tile' = tile]_vars

\* two threads went through the engine for the same tile of a seeded view
\* with a crop window that cuts it, and returned the same tile
C18_Witness ==
  /\ settings.seed_mode = 1
  /\ workers[1].st = "done"
  /\ workers[2].st = "done"
  /\ workers[1].bbox = workers[2].bbox
  /\ workers[1].engine_calls = 1
  /\ workers[2].engine_calls = 1
  /\ workers[1].disparity = workers[2].disparity
  /\ workers[1].px # workers[1].disparity
  /\ workers[1].px = workers[2].px

---------------------------------------------------------------------------
(* The order of the stages *)

\* what holds of the shared inputs while tiles are evaluated
C19_InputsReady ==
  /\ config.seed_mode > 0 =>
       /\ files.D_sub.st = "ok"
       /\ view.m_sub_disp = files.D_sub.img
       /\ settings.search_range = RangeOfDsub(files)
  /\ (config.seed_mode > 0 /\ config.use_local_homography) =>
       /\ files.local_hom.st = "ok"
       /\ view.m_local_hom = files.local_hom.grid
  /\ config.seed_mode = 0 => view.m_sub_disp = NullImage
  /\ view.left_cols = files.L.cols /\ view.left_rows = files.L.rows

\* C19: the coarse field, the global search range and, when enabled, the
\* homography grid are produced and loaded before the first tile is
\* evaluated and no step changes them while tiles are evaluated; with
\* compute_low_res_disparity_only no tile is evaluated and D is not written;
\* lowres_correlation is skipped exactly when skip_low_res_disparity_comp
\* is set and the seed mode is not 0.
C19_StagesInOrder ==
  /\ [](/\ (pc = "correlate" \/ log.tiles # {}) => C19_InputsReady
        /\ log.tiles # {} => pc \in {"correlate", "done"}
        /\ config.compute_low_res_disparity_only =>
             /\ pc \notin {"load", "correlate"}
             /\ log.tiles = {}
             /\ files.D.st = "absent"
        /\ pc # "start" =>
             log.lowres_correlation =
               (IF config.skip_low_res_disparity_comp /\ config.seed_mode # 0 THEN 0 ELSE 1))
  /\ [][pc = "correlate" =>
          /\ files'.D_sub = files.D_sub
          /\ files'.D_sub_spread = files.D_sub_spread
          /\ files'.local_hom = files.local_hom
          /\ settings' = settings
          /\ view' = view]_vars

\* tiles are being written in a run that produced the coarse field with the
\* low-resolution engine and the homography grid from it
C19_Witness ==
  /\ config.seed_mode = 1
  /\ config.use_local_homography
  /\ log.D_sub_writes = 1
  /\ log.create_local_homographies = 1
  /\ pc = "correlate"
  /\ log.tiles # {}
  /\ files.D.st = "partial"
  /\ C19_InputsReady

---------------------------------------------------------------------------
(* The spread field *)

\* C20: in seed modes 2 and 3 the spread field is mandatory: if its file
\* cannot be opened the run fails before any tile is evaluated, else the
\* view gets it. In seed mode 1 it is optional: the view gets it if the file
\* exists and opens, and gets no spread, without an error, if the file is
\* absent or unreadable. In seed mode 0 neither seed nor spread is loaded.
C20_SpreadBySeedMode ==
  /\ (config.seed_mode \in {2, 3} /\ files.D_sub_spread.st # "ok") =>
       /\ pc # "correlate"
       /\ log.tiles = {}
       /\ pc = "done" => err # "none"
  /\ (config.seed_mode \in {2, 3} /\ pc = "correlate") =>
       view.m_sub_disp_spread = files.D_sub_spread.img
  /\ config.seed_mode = 1 =>
       /\ pc = "correlate" =>
            view.m_sub_disp_spread =
              (IF files.D_sub_spread.st = "ok" THEN files.D_sub_spread.img ELSE NullImage)
       /\ log.failed_at = "load" =>
            \/ files.D_sub.st # "ok"
            \/ config.use_local_homography /\ files.local_hom.st # "ok"
  /\ config.seed_mode = 0 =>
       /\ pc = "correlate" =>
            view.m_sub_disp = NullImage /\ view.m_sub_disp_spread = NullImage
       /\ log.failed_at # "load"

\* in seed mode 1 an unreadable spread file was passed over and tiles are
\* evaluated without a spread
C20_Witness ==
  /\ config.seed_mode = 1
  /\ files.D_sub_spread.st = "corrupt"
  /\ pc = "correlate"
  /\ view.m_sub_disp_spread = NullImage
  /\ log.tiles # {}
  /\ err = "none"

\* C21: in seed mode 1 the range the low-resolution engine gets is, per axis,
\* the global range scaled to low resolution (lo = floor of the scaled min,
\* hi = ceil of the scaled max) with each side moved outward by the same
\* k = (hi - lo) * seed_percent_pad / 2 truncated to an integer; so the
\* padded range contains the unpadded one and the total growth 2k is the
\* padding fraction of the extent up to that truncation.
C21_PaddedLowresRange ==
  log.pyramid_correlate > 0 =>
    LET g == config.search_range
        e == log.D_sub_search_range
        pad == config.seed_percent_pad
        full == <<files.L.cols, files.L.rows>>
        sub == <<files.L_sub.cols, files.L_sub.rows>>
    IN \A a \in 1 .. 2 :
         \E lo \in PadCoords :
           /\ lo * full[a] <= g.min[a] * sub[a] /\ g.min[a] * sub[a] < (lo + 1) * full[a]
           /\ \E hi \in PadCoords :
                /\ (hi - 1) * full[a] < g.max[a] * sub[a] /\ g.max[a] * sub[a] <= hi * full[a]
                /\ \E k \in PadCoords :
                     /\ k >= 0
                     /\ 2 * pad[2] * k <= (hi - lo) * pad[1]
                     /\ (hi - lo) * pad[1] < 2 * pad[2] * (k + 1)
                     /\ e.min[a] = lo - k /\ e.max[a] = hi + k
                     /\ e.min[a] <= lo /\ hi <= e.max[a]
                     /\ (e.max[a] - e.min[a]) - (hi - lo) = 2 * k

\* C21 happens: the default 25% padding over a scaled range 20 wide and 6
\* high grows x by 2 on each side (2.5 truncated) and y by 0 (0.75 truncated)
C21_Witness ==
  /\ log.pyramid_correlate > 0
  /\ config.seed_percent_pad = <<1, 4>>
  /\ config.search_range = UserRange
  /\ files.L.cols = 4
  /\ log.D_sub_search_range = BBox(-12, -3, 12, 3)

\* the tile went through the seeded branch without local homography and
\* without a spread field, and reached the engine
C22_SeededPlain ==
  /\ tile.done
  /\ tile.engine_calls = 1
  /\ settings.seed_mode > 0
  /\ ~settings.use_local_homography
  /\ view.m_sub_disp_spread.cols = 0

\* the range of step 3 on axis i: the extremes of the valid seed disparities
\* of the sub-region, <<0, 0>> when no cell is valid
C22_Extremes(i) ==
  IF ValidSeedCells = {} THEN <<0, 0>>
  ELSE <<SetMin({view.m_sub_disp.px[p].v[i] : p \in ValidSeedCells}),
         SetMax({view.m_sub_disp.px[p].v[i] : p \in ValidSeedCells})>>

\* the seed-resolution range [lo, hi] of axis i times the upscale factor
\* num / den, floor on min and ceil on max, is the range of the tile, and
\* that range contains the exact products
C22_ScaledIs(i, lo, hi) ==
  LET num == IF i = 1 THEN view.left_cols ELSE view.left_rows
      den == IF i = 1 THEN view.m_sub_disp.cols ELSE view.m_sub_disp.rows
      smin == tile.search_range.min[i]
      smax == tile.search_range.max[i]
  IN /\ smin * den <= lo * num /\ lo * num < (smin + 1) * den
     /\ (smax - 1) * den < hi * num /\ hi * num <= smax * den

\* C22 as stated: the seed-resolution range is the range of step 3 rounded
\* outward to integers (floor on min, ceil on max) and expanded by exactly
\* one unit on every side, so for integer seed disparities [dmin - 1, dmax + 1];
\* the full-resolution range is its floor(min * scale), ceil(max * scale).
C22_ExpandedByExactlyOne ==
  C22_SeededPlain =>
    \A i \in 1..2 : C22_ScaledIs(i, C22_Extremes(i)[1] - 1, C22_Extremes(i)[2] + 1)

\* C22 amended: the rounding takes floor(min) and floor(max) + 1, and the
\* expansion by one follows it, so for integer seed disparities the
\* seed-resolution range is [dmin - 1, dmax + 2]: the max side moves by two;
\* the full-resolution range is floor(min * scale), ceil(max * scale) of
\* that range and contains its exact product with the scale, whatever the
\* per-axis scale.
C22_FloorPlusOneThenExpand ==
  C22_SeededPlain =>
    \A i \in 1..2 : C22_ScaledIs(i, C22_Extremes(i)[1] - 1, C22_Extremes(i)[2] + 2)

\* C22 happens: a seeded tile under the scale 3/2 in x whose valid seed
\* disparities are all -1 in x: the seed-resolution range [-2, 1] becomes
\* [-3, 2] (1.5 rounded up), where [-2, 0] would have given [-3, 0]
C22_Witness ==
  /\ C22_SeededPlain
  /\ ValidSeedCells # {}
  /\ view.left_cols = 3 /\ view.m_sub_disp.cols = 2
  /\ C22_Extremes(1) = <<-1, -1>>
  /\ tile.search_range.min[1] = -3
  /\ tile.search_range.max[1] = 2

\* the seed cells whose full-resolution footprint, the cell times the
\* upscale factor left size / seed size per axis, intersects the tile
C23_FootprintCells ==
  LET num == <<view.left_cols, view.left_rows>>
      den == <<view.m_sub_disp.cols, view.m_sub_disp.rows>>
  IN {p \in Cells(bounding_box(view.m_sub_disp)) :
        \A i \in 1..2 : /\ p[i] * num[i] < tile.bbox.max[i] * den[i]
                         /\ (p[i] + 1) * num[i] > tile.bbox.min[i] * den[i]}

\* C23: for every tile inside the image evaluated in seed mode > 0, the seed
\* sub-region lies within the seed field's extent and contains every seed
\* cell whose full-resolution footprint intersects the tile, whatever the
\* upscale factor (8, 2, 3 and the non-integer 3/2).
C23_SeedBBoxCoversTile ==
  (/\ tile.done
   /\ tile.engine_calls = 1
   /\ settings.seed_mode > 0
   /\ Encloses(ViewBox(view), tile.bbox)) =>
     /\ Encloses(bounding_box(view.m_sub_disp), SeedBBox(view, tile.bbox))
     /\ ~empty(SeedBBox(view, tile.bbox))
     /\ C23_FootprintCells \subseteq Cells(SeedBBox(view, tile.bbox))

\* C23 happens: upscale factor 3/2 in x, the tile [0,2) x [0,2): corners
\* 0 and 1.33, and the footprint of seed cell 1, [1.5, 3), intersects it
C23_Witness ==
  /\ tile.done
  /\ tile.engine_calls = 1
  /\ settings.seed_mode > 0
  /\ view.left_cols = 3 /\ view.m_sub_disp.cols = 2
  /\ tile.bbox = BBox(0, 0, 2, 2)
  /\ <<1, 0>> \in C23_FootprintCells

\* the bounding box of the spread values of the sub-region of the tile
C24_SpreadBox ==
  get_disparity_range(CropImg(view.m_sub_disp_spread, SeedBBox(view, tile.bbox)))

\* the largest absolute value of the spread box on axis i
C24_MaxAbs(i) ==
  LET lo == C24_SpreadBox.min[i]
      hi == C24_SpreadBox.max[i]
  IN Max2(IF lo >= 0 THEN lo ELSE -lo, IF hi >= 0 THEN hi ELSE -hi)

\* the bounding box of the valid seed disparities of the sub-region
C24_SeedBox ==
  get_disparity_range(CropImg(view.m_sub_disp, SeedBBox(view, tile.bbox)))

\* C24: with a spread field of the size of the seed field, the
\* seed-resolution range is, without local homography, the bounding box of
\* the valid seed disparities grown on both sides of each axis by the
\* maximum absolute component of the bounding box of the spread values
\* (the range of the tile is that box after steps 4 and 5); with local
\* homography it is the union of the bounding boxes of the transformed
\* (seed + spread) and (seed - spread).
C24_GrownByMaxAbsSpread ==
  (/\ tile.done
   /\ tile.engine_calls = 1
   /\ settings.seed_mode > 0
   /\ view.m_sub_disp_spread.cols = view.m_sub_disp.cols
   /\ view.m_sub_disp_spread.rows = view.m_sub_disp.rows) =>
    LET box == SeedBBox(view, tile.bbox)
        seed == CropImg(view.m_sub_disp, box)
        spread == CropImg(view.m_sub_disp_spread, box)
        H == view.m_local_hom[<<tile.bbox.min[1] \div corr_tile_size,
                                tile.bbox.min[2] \div corr_tile_size>>]
        upper == transform_disparities(H, [p \in DOMAIN seed |-> PixAdd(seed[p], spread[p])])
        lower == transform_disparities(H, [p \in DOMAIN seed |-> PixSub(seed[p], spread[p])])
        r == IF settings.use_local_homography
             THEN grow(get_disparity_range(upper), get_disparity_range(lower))
             ELSE BBox(C24_SeedBox.min[1] - C24_MaxAbs(1), C24_SeedBox.min[2] - C24_MaxAbs(2),
                       C24_SeedBox.max[1] + C24_MaxAbs(1), C24_SeedBox.max[2] + C24_MaxAbs(2))
    IN tile.search_range = ScaleUp(view, GrowAndExpand(r))

----------------------------------------------------------------------------
(* Homography freshness *)

\* C25: with seed mode > 0 and local homography enabled, a run whose
\* lowres_correlation recomputed the coarse field (cache miss, corrupt cache
\* or both crop windows set) and ended without error has recomputed the
\* homography grid in the same run, and the grid a run evaluates tiles with
\* was computed from the coarse field that run evaluates them with.
C25_GridFromCoarseFieldInUse ==
  (config.seed_mode > 0 /\ config.use_local_homography) =>
    /\ (log.rebuild = "true" /\ pc \in {"lowres_end", "load", "correlate"}) =>
         /\ log.create_local_homographies >= 1
         /\ files.local_hom_of = "D_sub"
    /\ pc = "correlate" => files.local_hom_of = "D_sub"

----------------------------------------------------------------------------
(* StereoSession: cached match files *)

\* C26: a call of ip_matching reuses the cached match file (returns true,
\* runs no matcher, leaves the file as it is) if and only if the match file
\* exists and not both crop windows are set; in every other call, so in
\* every call with both crop windows set, a matcher is run, match file or not.
C26_ReusesMatchFileIff ==
  [][(pc = "ip_matching" /\ pc' # "ip_matching") =>
       LET both == /\ settings.left_image_crop_win # BBox(0, 0, 0, 0)
                   /\ settings.right_image_crop_win # BBox(0, 0, 0, 0)
           reused == /\ log'.ip_matching = "true"
                     /\ log'.matcher = "none"
                     /\ files' = files
                     /\ err' = "none"
       IN /\ reused <=> (files.match.st # "absent" /\ ~both)
          /\ ~reused => log'.matcher \in {"ip_matching_w_alignment", "homography_ip_matching"}
          /\ both => log'.matcher # "none"]_vars

\* C26 happens: only the left crop window is set, the match file of an
\* earlier run is there, and ip_matching has returned true without a matcher
C26_Witness ==
  /\ pc = "start"
  /\ settings.left_image_crop_win # ZeroBox
  /\ settings.right_image_crop_win = ZeroBox
  /\ log.ip_matching = "true"
  /\ log.matcher = "none"
  /\ files.match = PipeMatch

----------------------------------------------------------------------------
(* StereoSession: cached normalized images *)

\* C27: a call of shared_preprocessing_hook returns early exactly when
\* -L.tif and -R.tif both exist, both open, and not both crop windows are
\* set; on that return only the two output file names are set: cropped file
\* names, no-data values, options and georeference outputs are as the caller
\* left them and no file is written. Otherwise, so with an output that does
\* not open and in every call with both crop windows set, the call goes on
\* to the end without an error.
C27_EarlyReturnOnUsableCache ==
  [][(pc = "hook" /\ pc' # "hook") =>
       LET both == /\ settings.left_image_crop_win # BBox(0, 0, 0, 0)
                   /\ settings.right_image_crop_win # BBox(0, 0, 0, 0)
           usable == /\ files.out_L.st = "ok"
                     /\ files.out_R.st = "ok"
                     /\ ~both
       IN /\ hook'.st = "returned_early" <=> usable
          /\ hook'.st = "returned_early" =>
               /\ hook'.left_output_file = "-L.tif"
               /\ hook'.right_output_file = "-R.tif"
               /\ hook' = [hook EXCEPT !.st = "returned_early",
                                        !.left_output_file = "-L.tif",
                                        !.right_output_file = "-R.tif"]
               /\ files' = files
          /\ ~usable =>
               /\ hook'.st = "returned"
               /\ err' = "none"
               /\ hook'.options = "m_options, PREDICTOR 1"
               /\ hook'.left_cropped_file # "" /\ hook'.right_cropped_file # ""
          /\ both => hook'.st = "returned"]_vars

\* C27 happens: both outputs open and one crop window is set, the call has
\* returned early and the caller's earlier values of the other arguments stand
C27_Witness ==
  /\ pc = "done"
  /\ hook.st = "returned_early"
  /\ files.out_L.st = "ok" /\ files.out_R.st = "ok"
  /\ settings.left_image_crop_win # ZeroBox
  /\ hook.left_output_file = "-L.tif"
  /\ hook.left_cropped_file = UsedHook.left_cropped_file
  /\ hook.left_nodata_value = UsedHook.left_nodata_value
  /\ hook.options = UsedHook.options
  /\ hook.has_left_georef = UsedHook.has_left_georef

====
